---- MODULE Spec2Model ----
(***************************************************************************)
(* The mswitchdirect demuxer (libavformat/mswitchdirect.c): N source       *)
(* readers filling bounded packet queues, the health monitor, the control  *)
(* plane (HTTP and console) and mswitchdirect_read_packet, the read path   *)
(* that arbitrates between the queues and normalises timestamps.           *)
(***************************************************************************)
EXTENDS Integers, Sequences, FiniteSets, TLC

----------------------------------------------------------------------------
(* Bounds of the model and configuration of the modelled run.              *)

num_sources == 3                  \* entries of msw_sources; the last one is the black filler
PACKET_BUFFER_SIZE == 1           \* ring capacity (90 in the source), scaled down
MaxPackets == 2                   \* packets the external demuxers deliver in the modelled run
MaxManual == 1                    \* manual switches requested in the modelled run
TickMs == 4000                    \* granularity of the wall clock
MaxElapsedMs == 4000              \* the clock is followed this long after open
startup_time == 10000             \* av_gettime()/1000 at open
source_timeout_ms == 1000         \* msw_source_timeout
startup_grace_period_ms == 1000   \* msw_grace_period
FrameStep == 40                   \* native DTS distance between two packets of a source
PtsDelay == 2                     \* pts - dts of every packet
BlackBase == 200000               \* native DTS of the black filler's first packet

(* Program constants.                                                      *)
AV_NOPTS_VALUE == -2147483647
AV_PKT_FLAG_KEY == 1
ManualGraceMs == 3000
SwitchTimeoutMs == 3000
TsThreshold == 90000
HTTP_OK == 200
HTTP_BAD_REQUEST == 400
AVERROR_EINVAL == -22

Sources == 0 .. (num_sources - 1)
NoSource == -1

----------------------------------------------------------------------------
VARIABLES
    \* MSwitchDirectContext
    active_source_index, pending_switch_to, wait_for_iframe, pending_switch_time,
    last_manual_switch_time, first_packet, last_output_pts, last_output_dts,
    ts_offset, auto_failover_enabled,
    \* MSwitchSource, one per source
    buffer, last_packet_time, last_consumption_time, packets_read, is_healthy,
    \* source_reader_thread, one per source: position and packet in hand
    reader_pc, reader_pkt,
    \* health_monitor_thread: position and its local active
    mon_pc, mon_active,
    \* mswitchdirect_read_packet: position and locals (active_source, pending_switch)
    rp_pc, rp_active, rp_pending,
    \* mswitchdirect_read_packet: the packet in hand (pkt), its payload (pkt->data)
    \* and the local is_keyframe, where the call is followed line by line
    rp_pkt, rp_data, is_keyframe,
    \* the wall clock, av_gettime() / 1000
    now,
    \* observation: what the last read call returned; the last manual switch and
    \* the last control request with its answer
    out, manual,
    \* the stop flags of the worker threads
    health_running, control_running, thread_running,
    \* control_server_thread: position
    ctl_pc,
    \* mswitchdirect_read_close: position, the source its loop is at, and the
    \* threads whose pthread_join has returned, in order (history)
    close_pc, close_i, joined,
    \* state_mutex: the thread that holds it; access: the fields of the context
    \* the last step of a thread touched and whether it held state_mutex (history)
    state_mutex, access,
    \* the last call of a queue function followed for itself (history)
    last_op

ctxVars == <<active_source_index, pending_switch_to, wait_for_iframe, pending_switch_time,
             last_manual_switch_time, auto_failover_enabled>>
tsVars == <<first_packet, last_output_pts, last_output_dts, ts_offset>>
srcVars == <<buffer, last_packet_time, last_consumption_time, packets_read, is_healthy>>
readerVars == <<reader_pc, reader_pkt>>
monVars == <<mon_pc, mon_active>>
rpLocals == <<rp_pkt, rp_data, is_keyframe>>
rpVars == <<rp_pc, rp_active, rp_pending, rpLocals>>
stopVars == <<health_running, control_running, thread_running>>
joinVars == <<close_pc, close_i, joined>>
closeVars == <<stopVars, ctl_pc, joinVars>>
lockVars == <<state_mutex, access>>
vars == <<ctxVars, tsVars, srcVars, readerVars, monVars, rpVars, closeVars, lockVars,
          last_op, now, out, manual>>

----------------------------------------------------------------------------
(* Packets.  flags is the container's keyframe flag; nal tells whether the *)
(* payload holds an H.264 NAL of type 5, 7 or 8 behind a start code.       *)

NoPacket == [src |-> NoSource, seq |-> 0, flags |-> 0, nal |-> FALSE,
             pts |-> AV_NOPTS_VALUE, dts |-> AV_NOPTS_VALUE]

BaseDts(i) == IF i = num_sources - 1 THEN BlackBase
              ELSE IF i = 0 THEN 1000 ELSE 50 * i

\* the n-th packet (n = 1, 2, ..) the external demuxer of source i yields
av_read_frame(i, n, flags, nal) ==
    [src |-> i, seq |-> n, flags |-> flags, nal |-> nal,
     pts |-> BaseDts(i) + (n - 1) * FrameStep + PtsDelay,
     dts |-> BaseDts(i) + (n - 1) * FrameStep]

PacketKinds == { <<AV_PKT_FLAG_KEY, TRUE>>, <<0, TRUE>>, <<0, FALSE>> }

----------------------------------------------------------------------------
(* PacketBuffer: the ring of PACKET_BUFFER_SIZE slots; size is the number  *)
(* of slots of the packets array.  put_log, get_log and drop_log are       *)
(* history: the sequence numbers of the packets put stored, of the packets *)
(* get and try_get moved out, and of those the read path then released     *)
(* with av_packet_unref instead of returning them.                         *)

packet_buffer_init(size) ==
    [size |-> size, packets |-> [s \in 0 .. (size - 1) |-> NoPacket],
     read_index |-> 0, write_index |-> 0, count |-> 0, eof |-> FALSE,
     put_log |-> <<>>, get_log |-> <<>>, drop_log |-> <<>>]

Capacity(buf) == buf.size

\* a put that waits only once the ring is over its capacity
PutBlocked_OffByOne(buf) == buf.count > Capacity(buf) /\ ~buf.eof

\* packet_buffer_put waits here
PutBlocked(buf) == buf.count >= Capacity(buf) /\ ~buf.eof

\* the buffer after a put that stored pkt
packet_buffer_put(buf, pkt) ==
    [buf EXCEPT !.packets[buf.write_index] = pkt,
                !.write_index = (buf.write_index + 1) % Capacity(buf),
                !.count = buf.count + 1,
                !.put_log = Append(@, pkt.seq)]

\* a put that stores the packet in a queue marked eof, too
PutResult_IgnoreEof(buf, pkt) == [ret |-> "OK", buf |-> packet_buffer_put(buf, pkt)]

\* lines 156-169, packet_buffer_put once it does not wait: ret, buffer
PutResult(buf, pkt) ==
    IF buf.eof
    THEN [ret |-> "CLOSED", buf |-> buf]
    ELSE [ret |-> "OK", buf |-> packet_buffer_put(buf, pkt)]

\* packet_buffer_get returns AVERROR_EOF
QueueIsDone(buf) == buf.count = 0 /\ buf.eof

\* packet_buffer_get waits here
GetBlocked(buf) == buf.count = 0 /\ ~buf.eof

\* a get that leaves read_index where it is
BufferPop_KeepIndex(buf) ==
    [buf EXCEPT !.packets[buf.read_index] = NoPacket,
                !.count = buf.count - 1,
                !.get_log = Append(@, buf.packets[buf.read_index].seq)]

\* a get that resets the eof mark
BufferPop_ClearEof(buf) ==
    [buf EXCEPT !.packets[buf.read_index] = NoPacket,
                !.read_index = (buf.read_index + 1) % Capacity(buf),
                !.count = buf.count - 1,
                !.eof = FALSE,
                !.get_log = Append(@, buf.packets[buf.read_index].seq)]

\* the buffer after its head packet was moved out
BufferPop(buf) ==
    [buf EXCEPT !.packets[buf.read_index] = NoPacket,
                !.read_index = (buf.read_index + 1) % Capacity(buf),
                !.count = buf.count - 1,
                !.get_log = Append(@, buf.packets[buf.read_index].seq)]

\* a get that reports the end of the stream as soon as eof is set
packet_buffer_get_EofFirst(buf) ==
    IF buf.count = 0 \/ buf.eof
    THEN [ret |-> "EOF", pkt |-> NoPacket, buf |-> buf]
    ELSE [ret |-> "OK", pkt |-> buf.packets[buf.read_index], buf |-> BufferPop(buf)]

\* packet_buffer_get once it does not wait: ret, packet, buffer
packet_buffer_get(buf) ==
    IF buf.count = 0 /\ buf.eof
    THEN [ret |-> "EOF", pkt |-> NoPacket, buf |-> buf]
    ELSE [ret |-> "OK", pkt |-> buf.packets[buf.read_index], buf |-> BufferPop(buf)]

\* a try_get that hands out the head packet and leaves it in the ring
packet_buffer_try_get_Peek(buf) ==
    IF buf.count = 0
    THEN [ret |-> "EAGAIN", pkt |-> NoPacket, buf |-> buf]
    ELSE [ret |-> "OK", pkt |-> buf.packets[buf.read_index], buf |-> buf]

packet_buffer_try_get(buf) ==
    IF buf.count = 0
    THEN [ret |-> "EAGAIN", pkt |-> NoPacket, buf |-> buf]
    ELSE [ret |-> "OK", pkt |-> buf.packets[buf.read_index], buf |-> BufferPop(buf)]

SetEof(buf) == [buf EXCEPT !.eof = TRUE]

\* no call followed yet
NoOp == [op |-> "none", src |-> NoSource, ret |-> "NONE", pkt |-> NoPacket,
         before |-> packet_buffer_init(0)]

\* av_packet_unref of a packet taken from this queue
av_packet_unref(buf, pkt) == [buf EXCEPT !.drop_log = Append(@, pkt.seq)]

----------------------------------------------------------------------------
(* Observation of the read path: what the last completed call returned     *)
(* (ret, the packet handed downstream and the queue it came from, how the  *)
(* call finalised a switch and to which source, the manual switch the call *)
(* started right after), and                                               *)
(* prev_dts, the DTS of the packet emitted before it.  A call in progress  *)
(* has ret = "NONE".  emitted is history: source and sequence number of    *)
(* every packet handed downstream so far, in order.                        *)

\* no field of the context touched
NoAccess == [thread |-> "none", fields |-> {}, held |-> FALSE]

\* a connection on which read() returned nothing
NoRequest == [method |-> "", path |-> "", token |-> <<>>]

NoResult == [ret |-> "NONE", src |-> NoSource, pkt |-> NoPacket, fin |-> "none",
             to |-> NoSource, prev_dts |-> AV_NOPTS_VALUE, want |-> NoSource,
             emitted |-> <<>>]

----------------------------------------------------------------------------
\* the state mswitchdirect_read_header leaves, with rings of size slots
mswitchdirect_read_header(size) ==
    /\ active_source_index = 0
    /\ pending_switch_to = -1
    /\ wait_for_iframe = FALSE
    /\ pending_switch_time = 0
    /\ last_manual_switch_time = 0
    /\ first_packet = TRUE
    /\ last_output_pts = AV_NOPTS_VALUE
    /\ last_output_dts = AV_NOPTS_VALUE
    /\ ts_offset = [i \in Sources |-> 0]
    /\ auto_failover_enabled = TRUE
    /\ buffer = [i \in Sources |-> packet_buffer_init(size)]
    /\ last_packet_time = [i \in Sources |-> 0]
    /\ last_consumption_time = [i \in Sources |-> 0]
    /\ packets_read = [i \in Sources |-> 0]
    /\ is_healthy = [i \in Sources |-> TRUE]
    /\ reader_pc = [i \in Sources |-> "read"]
    /\ reader_pkt = [i \in Sources |-> NoPacket]
    /\ mon_pc = "sleep"
    /\ mon_active = NoSource
    /\ rp_pc = "idle"
    /\ rp_active = NoSource
    /\ rp_pending = NoSource
    /\ rp_pkt = NoPacket
    /\ rp_data = <<>>
    /\ is_keyframe = FALSE
    /\ now = startup_time
    /\ out = NoResult
    /\ manual = [target |-> NoSource, time |-> 0, fresh |-> "no", count |-> 0,
                 via |-> "none", req |-> NoRequest, arg |-> NoSource, resp |-> 0]
    /\ health_running = TRUE
    /\ control_running = TRUE
    /\ thread_running = [i \in Sources |-> TRUE]
    /\ ctl_pc = "select"
    /\ close_pc = "none"
    /\ close_i = 0
    /\ joined = <<>>
    /\ state_mutex = "free"
    /\ access = NoAccess
    /\ last_op = NoOp

Init == mswitchdirect_read_header(PACKET_BUFFER_SIZE)

----------------------------------------------------------------------------
(* The wall clock.                                                         *)

Tick ==
    /\ now + TickMs <= startup_time + MaxElapsedMs
    /\ now' = now + TickMs
    /\ UNCHANGED <<ctxVars, tsVars, srcVars, readerVars, monVars, rpVars, closeVars,
                   lockVars, last_op,
                   out, manual>>

----------------------------------------------------------------------------
(* source_reader_thread of source i.                                       *)

RECURSIVE SumTo(_, _)
SumTo(f, i) == IF i < 0 THEN 0 ELSE f[i] + SumTo(f, i - 1)
TotalRead == SumTo(packets_read, num_sources - 1)

\* av_read_frame yields a packet: the liveness counters are updated, then the
\* packet is put; a put that has to wait leaves the thread inside
\* packet_buffer_put with the packet in hand, a put on an eof queue ends the loop;
\* the sources deliver budget packets in all
ReaderRead(i, budget) ==
    /\ reader_pc[i] = "read"
    /\ TotalRead < budget
    /\ last_packet_time' = [last_packet_time EXCEPT ![i] = now]
    /\ packets_read' = [packets_read EXCEPT ![i] = @ + 1]
    /\ \E k \in PacketKinds :
          LET pkt == av_read_frame(i, packets_read[i] + 1, k[1], k[2])
          IN  IF PutBlocked(buffer[i])
              THEN /\ reader_pkt' = [reader_pkt EXCEPT ![i] = pkt]
                   /\ reader_pc' = [reader_pc EXCEPT ![i] = "put"]
                   /\ UNCHANGED buffer
              ELSE IF buffer[i].eof
              THEN /\ reader_pc' = [reader_pc EXCEPT ![i] = "done"]
                   /\ UNCHANGED <<buffer, reader_pkt>>
              ELSE /\ buffer' = [buffer EXCEPT ![i] = packet_buffer_put(@, pkt)]
                   /\ UNCHANGED <<reader_pc, reader_pkt>>
    /\ UNCHANGED <<ctxVars, tsVars, last_consumption_time, is_healthy,
                   monVars, rpVars, closeVars, lockVars, last_op, now, out, manual>>

\* a put that waited goes on: it stores the packet and the loop continues, or
\* it finds the queue eof, returns -1 and the thread leaves the loop
ReaderPut(i) ==
    /\ reader_pc[i] = "put"
    /\ ~PutBlocked(buffer[i])
    /\ IF buffer[i].eof
       THEN /\ buffer' = [buffer EXCEPT ![i] = SetEof(@)]
            /\ reader_pc' = [reader_pc EXCEPT ![i] = "done"]
       ELSE /\ buffer' = [buffer EXCEPT ![i] = packet_buffer_put(@, reader_pkt[i])]
            /\ reader_pc' = [reader_pc EXCEPT ![i] = "read"]
    /\ reader_pkt' = [reader_pkt EXCEPT ![i] = NoPacket]
    /\ UNCHANGED <<ctxVars, tsVars, last_packet_time, last_consumption_time, packets_read,
                   is_healthy, monVars, rpVars, closeVars, lockVars, last_op, now, out,
                   manual>>

\* (when av_read_frame returns AVERROR_EOF or AVERROR(EAGAIN) the thread sleeps
\* 10 ms and retries: that iteration changes nothing and is a stuttering step)

\* a reader that declares its source unhealthy when it leaves on an error
ReaderFatal_Unhealthy(i) ==
    /\ reader_pc[i] = "read"
    /\ buffer' = [buffer EXCEPT ![i] = SetEof(@)]
    /\ is_healthy' = [is_healthy EXCEPT ![i] = FALSE]
    /\ reader_pc' = [reader_pc EXCEPT ![i] = "done"]
    /\ UNCHANGED <<ctxVars, tsVars, last_packet_time, last_consumption_time, packets_read,
                   reader_pkt, monVars, rpVars, closeVars, lockVars, last_op,
                   now, out, manual>>

\* av_read_frame returns any other error: the thread leaves the loop and marks
\* its queue eof
ReaderFatal(i) ==
    /\ reader_pc[i] = "read"
    /\ buffer' = [buffer EXCEPT ![i] = SetEof(@)]
    /\ reader_pc' = [reader_pc EXCEPT ![i] = "done"]
    /\ UNCHANGED <<ctxVars, tsVars, last_packet_time, last_consumption_time, packets_read,
                   is_healthy, reader_pkt, monVars, rpVars, closeVars, lockVars, last_op,
                   now, out, manual>>

\* av_read_frame returns AVERROR_EOF or AVERROR(EAGAIN) and thread_running is
\* found cleared at line 228: the thread leaves the loop and marks its queue eof
ReaderStop(i) ==
    /\ reader_pc[i] = "read"
    /\ ~thread_running[i]
    /\ buffer' = [buffer EXCEPT ![i] = SetEof(@)]
    /\ reader_pc' = [reader_pc EXCEPT ![i] = "done"]
    /\ UNCHANGED <<ctxVars, tsVars, last_packet_time, last_consumption_time, packets_read,
                   is_healthy, reader_pkt, monVars, rpVars, closeVars, lockVars, last_op,
                   now, out, manual>>

----------------------------------------------------------------------------
(* health_monitor_thread.                                                  *)

black_source == num_sources - 1

\* a sweep that judges the black source like every other source
SourceHealthy_NoExemption(i, active, current_time) ==
    IF i = active
    THEN IF current_time - last_manual_switch_time < ManualGraceMs THEN TRUE
         ELSE IF packets_read[i] = 0
              THEN ~(current_time - startup_time
                        >= startup_grace_period_ms + source_timeout_ms)
         ELSE IF last_packet_time[i] = 0 THEN TRUE
         ELSE current_time - last_packet_time[i] <= source_timeout_ms
    ELSE buffer[i].count > 0

\* the verdict of one sweep on source i (is_source_healthy), lines 307-355
SourceHealthy(i, active, current_time) ==
    IF i = black_source THEN TRUE
    ELSE IF i = active
    THEN IF current_time - last_manual_switch_time < ManualGraceMs THEN TRUE
         ELSE IF packets_read[i] = 0
              THEN ~(current_time - startup_time
                        >= startup_grace_period_ms + source_timeout_ms)
         ELSE IF last_packet_time[i] = 0 THEN TRUE
         ELSE current_time - last_packet_time[i] <= source_timeout_ms
    ELSE buffer[i].count > 0

\* the first healthy source that is not the black one, or -1
FirstHealthy(healthy) ==
    IF \E i \in Sources : i < black_source /\ healthy[i]
    THEN CHOOSE i \in Sources :
            /\ i < black_source /\ healthy[i]
            /\ \A j \in Sources : (j < black_source /\ healthy[j]) => i <= j
    ELSE -1

\* a choice that takes the black source to be entry num_sources
FailoverTarget_PastEnd(active, healthy) ==
    IF active # black_source THEN num_sources ELSE FirstHealthy(healthy)

\* the two-stage choice of the failover target (best_source)
FailoverTarget(active, healthy) ==
    IF active # black_source THEN black_source ELSE FirstHealthy(healthy)

\* a monitor that sweeps during the startup grace period too
MonitorWake_NoGrace ==
    /\ auto_failover_enabled
    /\ mon_pc = "sleep"
    /\ mon_active' = active_source_index
    /\ mon_pc' = "sweep"
    /\ UNCHANGED <<ctxVars, tsVars, srcVars, readerVars, rpVars, closeVars, lockVars,
                   last_op, now, out,
                   manual>>

\* the interval sleep is over, the startup grace period too: take the time and
\* the active source (health_running is looked at before the sleep, line 277,
\* not after it)
MonitorWake ==
    /\ auto_failover_enabled
    /\ mon_pc = "sleep"
    /\ now - startup_time >= startup_grace_period_ms
    /\ mon_active' = active_source_index
    /\ mon_pc' = "sweep"
    /\ UNCHANGED <<ctxVars, tsVars, srcVars, readerVars, rpVars, closeVars, lockVars,
                   last_op, now, out,
                   manual>>

\* the sweep over the sources, then the failover decision
MonitorSweep ==
    /\ mon_pc = "sweep"
    /\ LET healthy == [i \in Sources |-> SourceHealthy(i, mon_active, now)]
           best == FailoverTarget(mon_active, healthy)
       IN  /\ is_healthy' = healthy
           /\ IF ~healthy[mon_active] /\ best >= 0 /\ pending_switch_to < 0
              THEN /\ pending_switch_to' = best
                   /\ wait_for_iframe' = TRUE
                   /\ pending_switch_time' = now
              ELSE UNCHANGED <<pending_switch_to, wait_for_iframe, pending_switch_time>>
    /\ mon_pc' = IF health_running THEN "sleep" ELSE "done"
    /\ mon_active' = NoSource
    /\ UNCHANGED <<active_source_index, last_manual_switch_time, auto_failover_enabled,
                   tsVars, buffer, last_packet_time, last_consumption_time, packets_read,
                   readerVars, rpVars, closeVars, lockVars, last_op, now, out, manual>>

\* the interval sleep is over with auto-failover off or within the startup
\* grace period (lines 280-293, continue) and health_running is found cleared
\* at line 277: the thread returns.  (With health_running set the iteration
\* changes nothing.)
MonitorExit ==
    /\ mon_pc = "sleep"
    /\ ~auto_failover_enabled \/ now - startup_time < startup_grace_period_ms
    /\ ~health_running
    /\ mon_pc' = "done"
    /\ UNCHANGED <<ctxVars, tsVars, srcVars, readerVars, mon_active, rpVars, closeVars,
                   lockVars, last_op, now, out, manual>>

----------------------------------------------------------------------------
(* The control plane.  An HTTP request is the method, the path up to and   *)
(* including "/switch/" (or another path), and the characters that follow  *)
(* "/switch/"; NoRequest is a connection on which read() returned nothing. *)

Digits == {"0", "1", "2", "3", "4", "5", "6", "7", "8", "9"}

DigitValue(c) ==
    CASE c = "0" -> 0 [] c = "1" -> 1 [] c = "2" -> 2 [] c = "3" -> 3 [] c = "4" -> 4
      [] c = "5" -> 5 [] c = "6" -> 6 [] c = "7" -> 7 [] c = "8" -> 8 [] c = "9" -> 9

\* the value of the longest run of digits at the start of str, continuing acc
RECURSIVE atoi_digits(_, _)
atoi_digits(str, acc) ==
    IF str # <<>> /\ Head(str) \in Digits
    THEN atoi_digits(Tail(str), 10 * acc + DigitValue(Head(str)))
    ELSE acc

\* atoi of the C library: white space is skipped, then an optional sign, then
\* digits up to the first character that is none; no digit at all yields 0
RECURSIVE atoi(_)
atoi(str) ==
    IF str = <<>> THEN 0
    ELSE IF Head(str) = " " THEN atoi(Tail(str))
    ELSE IF Head(str) = "-" THEN - atoi_digits(Tail(str), 0)
    ELSE IF Head(str) = "+" THEN atoi_digits(Tail(str), 0)
    ELSE atoi_digits(str, 0)

\* a parser that folds every number into the range of the sources
ParseSwitch_Folded(req) ==
    IF req.method \in {"POST", "GET"} /\ req.path = "/switch/"
    THEN atoi(req.token) % num_sources
    ELSE -1

\* lines 442-454: new_source as the handler parses it out of the request
ParseSwitch(req) ==
    IF req.method \in {"POST", "GET"} /\ req.path = "/switch/"
    THEN atoi(req.token)
    ELSE -1

\* the request "GET /switch/<n>" for a single-digit n
SwitchRequest(n) ==
    [method |-> "GET", path |-> "/switch/",
     token |-> << CHOOSE c \in Digits : DigitValue(c) = n >>]

\* control_server_thread handles one request; at most budget requests and
\* console commands are followed
HttpRequest(req, budget) ==
    /\ manual.count < budget
    /\ ctl_pc \in {"select", "read"}
    /\ ctl_pc' = "select"
    /\ LET new_source == ParseSwitch(req)
       IN  IF req # NoRequest /\ new_source >= 0 /\ new_source < num_sources
           THEN /\ active_source_index' = new_source
                /\ manual' = [target |-> new_source, time |-> now, fresh |-> "yes",
                              count |-> manual.count + 1, via |-> "http",
                              req |-> req, arg |-> NoSource, resp |-> HTTP_OK]
           ELSE /\ UNCHANGED active_source_index
                /\ manual' = [manual EXCEPT !.count = @ + 1, !.via = "http", !.req = req,
                                            !.arg = NoSource, !.resp = HTTP_BAD_REQUEST]
    /\ UNCHANGED <<pending_switch_to, wait_for_iframe, pending_switch_time,
                   last_manual_switch_time, auto_failover_enabled, tsVars, srcVars,
                   readerVars, monVars, rpVars, stopVars, joinVars, lockVars, last_op,
                   now, out>>

\* lines 431-437: select and accept return for a client that has sent nothing
\* yet, and the thread waits in read() for its bytes
ControlAccept(budget) ==
    /\ manual.count < budget
    /\ ctl_pc = "select"
    /\ ctl_pc' = "read"
    /\ UNCHANGED <<ctxVars, tsVars, srcVars, readerVars, monVars, rpVars, stopVars,
                   joinVars,
                   lockVars, last_op, now, out, manual>>

\* lines 424-432: select times out and control_running is found cleared: the
\* thread returns
ControlExit ==
    /\ ctl_pc = "select"
    /\ ~control_running
    /\ ctl_pc' = "done"
    /\ UNCHANGED <<ctxVars, tsVars, srcVars, readerVars, monVars, rpVars, stopVars,
                   joinVars,
                   lockVars, last_op, now, out, manual>>

\* mswitchdirect_cli_switch(n), while global_mswitchdirect_ctx is set
CliSwitch(n, budget) ==
    /\ manual.count < budget
    /\ rp_pc # "close"
    /\ IF n < 0 \/ n >= num_sources
       THEN /\ UNCHANGED <<active_source_index, last_manual_switch_time>>
            /\ manual' = [manual EXCEPT !.count = @ + 1, !.via = "cli", !.req = NoRequest,
                                        !.arg = n, !.resp = AVERROR_EINVAL]
       ELSE /\ active_source_index' = n
            /\ last_manual_switch_time' = now
            /\ manual' = [target |-> n, time |-> now, fresh |-> "yes",
                          count |-> manual.count + 1, via |-> "cli",
                          req |-> NoRequest, arg |-> n, resp |-> 0]
    /\ UNCHANGED <<pending_switch_to, wait_for_iframe, pending_switch_time,
                   auto_failover_enabled, tsVars, srcVars, readerVars, monVars, rpVars,
                   closeVars, lockVars, last_op, now, out>>

----------------------------------------------------------------------------
(* mswitchdirect_read_packet: the timestamp normaliser, lines 858-899.     *)

Abs(x) == IF x < 0 THEN -x ELSE x

\* a normaliser that re-anchors the offset at every difference
Normalise_NoThreshold(pkt, a, fp, lop, lod, off) ==
    IF fp
    THEN [pkt |-> pkt, first_packet |-> FALSE,
          last_output_pts |-> IF pkt.pts # AV_NOPTS_VALUE THEN pkt.pts ELSE lop,
          last_output_dts |-> IF pkt.dts # AV_NOPTS_VALUE THEN pkt.dts ELSE lod,
          ts_offset |-> off]
    ELSE LET expected_dts == lod
             actual_dts == IF pkt.dts # AV_NOPTS_VALUE THEN pkt.dts ELSE pkt.pts
             required_offset == expected_dts - actual_dts
             off2 == IF /\ actual_dts # AV_NOPTS_VALUE
                        /\ expected_dts # AV_NOPTS_VALUE
                     THEN [off EXCEPT ![a] = required_offset]
                     ELSE off
             pts2 == IF pkt.pts # AV_NOPTS_VALUE THEN pkt.pts + off2[a] ELSE pkt.pts
             dts2 == IF pkt.dts # AV_NOPTS_VALUE THEN pkt.dts + off2[a] ELSE pkt.dts
         IN  [pkt |-> [pkt EXCEPT !.pts = pts2, !.dts = dts2], first_packet |-> FALSE,
              last_output_pts |-> IF pkt.pts # AV_NOPTS_VALUE THEN pts2 ELSE lop,
              last_output_dts |-> IF pkt.dts # AV_NOPTS_VALUE THEN dts2 ELSE lod,
              ts_offset |-> off2]

\* the packet as emitted and the normaliser's state after it, for a packet pkt
\* read while a is the function's active_source and the normaliser's state is
\* fp (first_packet), lop, lod (last_output_pts/dts), off (ts_offset)
Normalise(pkt, a, fp, lop, lod, off) ==
    IF fp
    THEN [pkt |-> pkt, first_packet |-> FALSE,
          last_output_pts |-> IF pkt.pts # AV_NOPTS_VALUE THEN pkt.pts ELSE lop,
          last_output_dts |-> IF pkt.dts # AV_NOPTS_VALUE THEN pkt.dts ELSE lod,
          ts_offset |-> off]
    ELSE LET expected_dts == lod
             actual_dts == IF pkt.dts # AV_NOPTS_VALUE THEN pkt.dts ELSE pkt.pts
             required_offset == expected_dts - actual_dts
             off2 == IF /\ actual_dts # AV_NOPTS_VALUE
                        /\ expected_dts # AV_NOPTS_VALUE
                        /\ Abs(required_offset - off[a]) > TsThreshold
                     THEN [off EXCEPT ![a] = required_offset]
                     ELSE off
             pts2 == IF pkt.pts # AV_NOPTS_VALUE THEN pkt.pts + off2[a] ELSE pkt.pts
             dts2 == IF pkt.dts # AV_NOPTS_VALUE THEN pkt.dts + off2[a] ELSE pkt.dts
         IN  [pkt |-> [pkt EXCEPT !.pts = pts2, !.dts = dts2], first_packet |-> FALSE,
              last_output_pts |-> IF pkt.pts # AV_NOPTS_VALUE THEN pts2 ELSE lop,
              last_output_dts |-> IF pkt.dts # AV_NOPTS_VALUE THEN dts2 ELSE lod,
              ts_offset |-> off2]

\* the DTS of the last packet handed downstream
LastEmittedDts == IF out.ret = "OK" THEN out.pkt.dts ELSE out.prev_dts

\* the call returns ret and its locals die; pkt is the packet handed downstream
\* (NoPacket unless ret is "OK"), fin tells how the call finalised a switch, if
\* it did, and w is the manual switch the call started right after, if any
Return(ret, pkt, fin, w) ==
    /\ out' = [ret |-> ret, src |-> pkt.src, pkt |-> pkt, fin |-> fin,
               to |-> IF fin = "none" THEN NoSource ELSE active_source_index',
               prev_dts |-> LastEmittedDts, want |-> w,
               emitted |-> IF ret = "OK" THEN Append(out.emitted, <<pkt.src, pkt.seq>>)
                           ELSE out.emitted]
    /\ manual' = IF w # NoSource THEN [manual EXCEPT !.fresh = "no"] ELSE manual
    /\ rp_pc' = "idle"
    /\ rp_active' = NoSource
    /\ rp_pending' = NoSource
    /\ rp_pkt' = NoPacket
    /\ rp_data' = <<>>
    /\ is_keyframe' = FALSE
    /\ UNCHANGED closeVars

\* the call has to wait in the blocking get at position pc
Block(pc, a, p, w) ==
    /\ rp_pc' = pc
    /\ rp_active' = a
    /\ rp_pending' = p
    /\ manual' = IF w # NoSource THEN [manual EXCEPT !.fresh = "incall"] ELSE manual
    /\ out' = [NoResult EXCEPT !.prev_dts = LastEmittedDts, !.emitted = out.emitted]
    /\ UNCHANGED <<rpLocals, closeVars>>

\* lines 858-899 and return 0
Emit(pkt, a, fp, lop, lod, off, fin, w) ==
    LET n == Normalise(pkt, a, fp, lop, lod, off)
    IN  /\ last_consumption_time' = [last_consumption_time EXCEPT ![a] = now]
        /\ first_packet' = n.first_packet
        /\ last_output_pts' = n.last_output_pts
        /\ last_output_dts' = n.last_output_dts
        /\ ts_offset' = n.ts_offset
        /\ Return("OK", n.pkt, fin, w)

\* the switch is executed (lines 694-702, 753-764), and the packet that
\* triggered it goes through the normaliser as the first packet of source p
FinaliseAndEmit(pkt, p, fin, w) ==
    /\ active_source_index' = p
    /\ pending_switch_to' = -1
    /\ wait_for_iframe' = FALSE
    /\ Emit(pkt, p, TRUE, AV_NOPTS_VALUE, AV_NOPTS_VALUE, [ts_offset EXCEPT ![p] = 0],
            fin, w)

----------------------------------------------------------------------------
(* mswitchdirect_read_packet: the read path.  A call is followed from its  *)
(* snapshot of the switcher state (active_source a, pending_switch p) to   *)
(* its return, or to the blocking packet_buffer_get it has to wait in, and *)
(* from there to its return.  buf is the queues as the call left them.     *)

\* a keyframe test that accepts every packet
IsKeyframe_EveryPacket(pkt) == pkt.src \in Sources

\* lines 712-736: the container flag, else the scan of the payload
IsKeyframe(pkt) == pkt.flags = AV_PKT_FLAG_KEY \/ pkt.nal

\* line 683: the forced path looks at the container flag alone
IsKeyframeForced(pkt) == pkt.flags = AV_PKT_FLAG_KEY

\* lines 747-749
ForceSwitch == now - pending_switch_time > SwitchTimeoutMs

\* line 751
ExecuteSwitch(pkt) == IsKeyframe(pkt) \/ ~wait_for_iframe \/ ForceSwitch

\* line 766
Reason(pkt) == IF IsKeyframe(pkt) THEN "iframe" ELSE IF ForceSwitch THEN "timeout" ELSE "forced"

\* lines 677-707: the blocking get on the pending source of the forced
\* switch; wfi is wait_for_iframe as lines 672-674 left it
ForcedGet(buf, a, p, w, wfi) ==
    IF GetBlocked(buf[p])
    THEN /\ buffer' = buf
         /\ Block("forced_get", a, p, w)
         /\ wait_for_iframe' = wfi
         /\ UNCHANGED <<active_source_index, pending_switch_to, tsVars,
                        last_consumption_time>>
    ELSE LET r == packet_buffer_get(buf[p])
         IN  /\ IF r.ret = "OK" /\ IsKeyframeForced(r.pkt)
                THEN /\ buffer' = [buf EXCEPT ![p] = r.buf]
                     /\ FinaliseAndEmit(r.pkt, p, "forced_iframe", w)
                ELSE /\ buffer' = [buf EXCEPT ![p] = IF r.ret = "OK"
                                                     THEN av_packet_unref(r.buf, r.pkt)
                                                     ELSE r.buf]
                     /\ Return(IF r.ret = "OK" THEN "EAGAIN" ELSE "EOF",
                               NoPacket, "none", w)
                     /\ wait_for_iframe' = wfi
                     /\ UNCHANGED <<active_source_index, pending_switch_to, tsVars,
                                    last_consumption_time>>

\* lines 778-787: the packet of the pending source was discarded, the call
\* falls back to the active source with a blocking get
FallbackGet(buf, a, p, w) ==
    IF GetBlocked(buf[a])
    THEN /\ buffer' = buf
         /\ Block("fallback_get", a, p, w)
         /\ UNCHANGED <<tsVars, last_consumption_time>>
    ELSE LET r == packet_buffer_get(buf[a])
         IN  /\ buffer' = [buf EXCEPT ![a] = r.buf]
             /\ IF r.ret = "OK"
                THEN Emit(r.pkt, a, first_packet, last_output_pts, last_output_dts,
                          ts_offset, "none", w)
                ELSE /\ Return(IF auto_failover_enabled THEN "EAGAIN" ELSE "EOF",
                               NoPacket, "none", w)
                     /\ UNCHANGED <<tsVars, last_consumption_time>>

\* lines 658-789: a switch is pending
TryPending(a, p, w) ==
    LET r == packet_buffer_try_get(buffer[p])
        r2 == packet_buffer_try_get(buffer[a])
    IN  IF r.ret = "OK"
        THEN IF ExecuteSwitch(r.pkt)
             THEN /\ buffer' = [buffer EXCEPT ![p] = r.buf]
                  /\ FinaliseAndEmit(r.pkt, p, Reason(r.pkt), w)
             ELSE /\ FallbackGet([buffer EXCEPT ![p] = av_packet_unref(r.buf, r.pkt)], a, p, w)
                  /\ UNCHANGED <<active_source_index, pending_switch_to, wait_for_iframe>>
        ELSE IF r2.ret = "OK"
        THEN /\ buffer' = [buffer EXCEPT ![a] = r2.buf]
             /\ Emit(r2.pkt, a, first_packet, last_output_pts, last_output_dts,
                     ts_offset, "none", w)
             /\ UNCHANGED <<active_source_index, pending_switch_to, wait_for_iframe>>
        ELSE ForcedGet(buffer, a, p, w, FALSE)

\* lines 790-856: no switch is pending
GetActive(a, w) ==
    IF GetBlocked(buffer[a])
    THEN /\ Block("get_active", a, -1, w)
         /\ UNCHANGED <<active_source_index, pending_switch_to, wait_for_iframe,
                        pending_switch_time, tsVars, buffer, last_consumption_time>>
    ELSE LET r == packet_buffer_get(buffer[a])
             best_source == FailoverTarget(a, is_healthy)
         IN  /\ buffer' = [buffer EXCEPT ![a] = r.buf]
             /\ IF r.ret = "OK"
                THEN /\ Emit(r.pkt, a, first_packet, last_output_pts, last_output_dts,
                             ts_offset, "none", w)
                     /\ UNCHANGED <<active_source_index, pending_switch_to,
                                    wait_for_iframe, pending_switch_time>>
                ELSE /\ UNCHANGED <<active_source_index, tsVars, last_consumption_time>>
                     /\ IF /\ auto_failover_enabled
                           /\ ~(now - last_manual_switch_time < ManualGraceMs)
                           /\ best_source >= 0
                        THEN IF pending_switch_to < 0
                             THEN /\ pending_switch_to' = best_source
                                  /\ wait_for_iframe' = TRUE
                                  /\ pending_switch_time' = now
                                  /\ Return("EAGAIN", NoPacket, "none", w)
                             ELSE /\ Return("EOF", NoPacket, "none", w)
                                  /\ UNCHANGED <<pending_switch_to, wait_for_iframe,
                                                 pending_switch_time>>
                        ELSE /\ Return(IF auto_failover_enabled THEN "EAGAIN" ELSE "EOF",
                                       NoPacket, "none", w)
                             /\ UNCHANGED <<pending_switch_to, wait_for_iframe,
                                            pending_switch_time>>

\* the manual switch a call starts right after, and the one a waiting call
\* started right after
FreshSwitch == IF manual.fresh = "yes" THEN manual.target ELSE NoSource
CallSwitch == IF manual.fresh = "incall" THEN manual.target ELSE NoSource

\* a call starts: lines 652-655 take the snapshot
RP_Start ==
    /\ rp_pc = "idle"
    /\ IF pending_switch_to >= 0
       THEN /\ TryPending(active_source_index, pending_switch_to, FreshSwitch)
            /\ UNCHANGED pending_switch_time
       ELSE GetActive(active_source_index, FreshSwitch)
    /\ UNCHANGED <<last_manual_switch_time, auto_failover_enabled, last_packet_time,
                   packets_read, is_healthy, readerVars, monVars, lockVars, last_op, now>>

\* the call that waited in the get of line 677 goes on
RP_ForcedGet ==
    /\ rp_pc = "forced_get"
    /\ ~GetBlocked(buffer[rp_pending])
    /\ ForcedGet(buffer, rp_active, rp_pending, CallSwitch, wait_for_iframe)
    /\ UNCHANGED <<pending_switch_time, last_manual_switch_time, auto_failover_enabled,
                   last_packet_time, packets_read, is_healthy, readerVars, monVars,
                   lockVars, last_op,
                   now>>

\* the call that waited in the get of line 778 goes on
RP_FallbackGet ==
    /\ rp_pc = "fallback_get"
    /\ ~GetBlocked(buffer[rp_active])
    /\ FallbackGet(buffer, rp_active, rp_pending, CallSwitch)
    /\ UNCHANGED <<ctxVars, last_packet_time, packets_read, is_healthy, readerVars,
                   monVars, lockVars, last_op, now>>

\* the call that waited in the get of line 792 goes on
RP_GetActive ==
    /\ rp_pc = "get_active"
    /\ ~GetBlocked(buffer[rp_active])
    /\ GetActive(rp_active, CallSwitch)
    /\ UNCHANGED <<last_manual_switch_time, auto_failover_enabled, last_packet_time,
                   packets_read, is_healthy, readerVars, monVars, lockVars, last_op, now>>

----------------------------------------------------------------------------
(* mswitchdirect_read_close, called by the thread that calls               *)
(* mswitchdirect_read_packet, between two calls (rp_pc is "close" from     *)
(* then on).  close_pc is the pthread_join it waits in, or "source" at the *)
(* head of the loop over the sources.                                      *)

Health == <<"health", NoSource>>
ControlThread == <<"control", NoSource>>
ReaderThread(i) == <<"reader", i>>

\* lines 974-984: health_running is cleared, then the monitor is joined
ReadClose ==
    /\ rp_pc = "idle"
    /\ close_pc = "none"
    /\ rp_pc' = "close"
    /\ health_running' = FALSE
    /\ close_pc' = "join_health"
    /\ UNCHANGED <<ctxVars, tsVars, srcVars, readerVars, monVars, rp_active, rp_pending,
                   rpLocals, control_running, thread_running, ctl_pc, close_i, joined, lockVars,
                   last_op,
                   now, out, manual>>

\* lines 983-990: the join of the monitor returns (it is skipped when
\* auto-failover is off), control_running is cleared and the control thread
\* is joined
CloseJoinHealth ==
    /\ close_pc = "join_health"
    /\ ~auto_failover_enabled \/ mon_pc = "done"
    /\ joined' = IF auto_failover_enabled THEN Append(joined, Health) ELSE joined
    /\ control_running' = FALSE
    /\ close_pc' = "join_control"
    /\ UNCHANGED <<ctxVars, tsVars, srcVars, readerVars, monVars, rpVars, health_running,
                   thread_running, ctl_pc, close_i, lockVars, last_op, now, out, manual>>

\* lines 990-997: the join of the control thread returns, the socket is
\* closed and the loop over the sources starts
CloseJoinControl ==
    /\ close_pc = "join_control"
    /\ ctl_pc = "done"
    /\ joined' = Append(joined, ControlThread)
    /\ close_pc' = "source"
    /\ close_i' = 0
    /\ UNCHANGED <<ctxVars, tsVars, srcVars, readerVars, monVars, rpVars, stopVars, ctl_pc,
                   lockVars, last_op, now, out, manual>>

\* lines 998-1006 for source i: thread_running is cleared, eof is set on the
\* queue and its waiters are woken, then the reader is joined
CloseSource(i) ==
    /\ close_pc = "source"
    /\ close_i = i
    /\ thread_running' = [thread_running EXCEPT ![i] = FALSE]
    /\ buffer' = [buffer EXCEPT ![i] = SetEof(@)]
    /\ close_pc' = "join_reader"
    /\ UNCHANGED <<ctxVars, tsVars, last_packet_time, last_consumption_time, packets_read,
                   is_healthy, readerVars, monVars, rpVars, health_running, control_running,
                   ctl_pc, close_i, joined, lockVars, last_op, now, out, manual>>

\* lines 1006-1016 for source i: the join of the reader returns, the queue is
\* destroyed and the demuxer closed; the loop goes on to the next source, and
\* after the last one the function returns
CloseJoinReader(i) ==
    /\ close_pc = "join_reader"
    /\ close_i = i
    /\ reader_pc[i] = "done"
    /\ joined' = Append(joined, ReaderThread(i))
    /\ close_i' = i + 1
    /\ close_pc' = IF i + 1 < num_sources THEN "source" ELSE "done"
    /\ UNCHANGED <<ctxVars, tsVars, srcVars, readerVars, monVars, rpVars, stopVars, ctl_pc,
                   lockVars, last_op, now, out, manual>>

Close ==
    \/ ReadClose \/ CloseJoinHealth \/ CloseJoinControl
    \/ \E i \in Sources : CloseSource(i) \/ CloseJoinReader(i)

----------------------------------------------------------------------------
Reader == \E i \in Sources : ReaderRead(i, MaxPackets) \/ ReaderPut(i) \/ ReaderFatal(i)

Monitor == MonitorWake \/ MonitorSweep

Control ==
    \E n \in Sources : HttpRequest(SwitchRequest(n), MaxManual) \/ CliSwitch(n, MaxManual)

ReadPacket == RP_Start \/ RP_ForcedGet \/ RP_FallbackGet \/ RP_GetActive

Next == Tick \/ Reader \/ Monitor \/ Control \/ ReadPacket

Spec == Init /\ [][Next]_vars

----------------------------------------------------------------------------
(* The control plane under every request of a small alphabet: the sources  *)
(* deliver nothing and may fail, the read path runs, and MaxRequests       *)
(* requests and console commands arrive.                                   *)

MaxRequests == 2
MaxCliArg == 4

Chars == {"1", "9", "-", "x", " "}
Tokens == {<<>>} \cup {<<c>> : c \in Chars} \cup {<<c, d>> : c \in Chars, d \in Chars}
Methods == {"GET", "POST", "PUT"}
Requests ==
    {[method |-> m, path |-> "/switch/", token |-> t] : m \in Methods, t \in Tokens}
    \cup {[method |-> m, path |-> q, token |-> <<>>] : m \in Methods, q \in {"/status", "/"}}
    \cup {NoRequest}
CliArgs == -1 .. MaxCliArg

ControlNext ==
    \/ Tick
    \/ \E i \in Sources : ReaderFatal(i)
    \/ RP_Start \/ RP_ForcedGet \/ RP_GetActive
    \/ \E req \in Requests : HttpRequest(req, MaxRequests)
    \/ \E n \in CliArgs : CliSwitch(n, MaxRequests)

ControlSpec == Init /\ [][ControlNext]_vars

----------------------------------------------------------------------------
(* The queues under load: rings of QueueCapacity slots, QueuePackets       *)
(* packets delivered in all, readers that may fail, the read path, and     *)
(* read_close at any moment between two read calls, with the monitor and   *)
(* the control thread idle until they are stopped.                         *)

QueueCapacity == 2
QueuePackets == 4

QueueInit == mswitchdirect_read_header(QueueCapacity)

QueueNext ==
    \/ \E i \in Sources :
          ReaderRead(i, QueuePackets) \/ ReaderPut(i) \/ ReaderFatal(i) \/ ReaderStop(i)
    \/ RP_Start \/ RP_ForcedGet \/ RP_GetActive
    \/ MonitorExit \/ ControlExit
    \/ Close

QueueSpec == QueueInit /\ [][QueueNext]_vars

----------------------------------------------------------------------------
(* Shutdown: the demuxer is closed at any moment between two read calls    *)
(* while the readers, which do not fail, deliver ClosePackets packets in   *)
(* all, the monitor sweeps, and CloseRequests clients connect to the       *)
(* control port, each of which sends a request at once, later, or never.   *)
(* The scheduler runs every thread that can take a step; nothing makes a   *)
(* client send.                                                            *)

ClosePackets == 2
CloseRequests == 1

CloseRequestSet == {SwitchRequest(n) : n \in Sources} \cup {NoRequest}

CloseNext ==
    \/ Tick
    \/ \E i \in Sources :
          ReaderRead(i, ClosePackets) \/ ReaderPut(i) \/ ReaderStop(i)
    \/ MonitorWake \/ MonitorSweep \/ MonitorExit
    \/ ControlAccept(CloseRequests) \/ ControlExit
    \/ \E req \in CloseRequestSet : HttpRequest(req, CloseRequests)
    \/ RP_Start \/ RP_ForcedGet \/ RP_GetActive
    \/ Close

CloseFairness ==
    /\ WF_vars(Close)
    /\ WF_vars(MonitorWake \/ MonitorSweep \/ MonitorExit)
    /\ WF_vars(ControlExit)
    /\ \A i \in Sources : WF_vars(ReaderPut(i) \/ ReaderStop(i))

CloseSpec == Init /\ [][CloseNext]_vars /\ CloseFairness

----------------------------------------------------------------------------
(* state_mutex.  The threads are followed from one pthread_mutex_lock or   *)
(* unlock of state_mutex to the next: a step is a lock call, a critical    *)
(* section up to its unlock, or the code a thread runs between two         *)
(* critical sections.  Each step that touches active_source_index,         *)
(* pending_switch_to, wait_for_iframe, pending_switch_time or              *)
(* last_manual_switch_time leaves in access the fields it touched and      *)
(* whether the thread held state_mutex.                                    *)

Touch(thread, fields) ==
    access' = [thread |-> thread, fields |-> fields, held |-> state_mutex = thread]

\* pthread_mutex_lock(&ctx->state_mutex) by thread returns
Lock(thread) == state_mutex = "free" /\ state_mutex' = thread

\* line 296, after the sleep and the startup grace period
MX_MonitorLock ==
    /\ auto_failover_enabled
    /\ mon_pc = "sleep"
    /\ now - startup_time >= startup_grace_period_ms
    /\ Lock("monitor")
    /\ UNCHANGED <<ctxVars, tsVars, srcVars, readerVars, monVars, rpVars, closeVars,
                   access, last_op,
                   now, out, manual>>

\* lines 297-298
MX_MonitorSnapshot ==
    /\ mon_pc = "sleep"
    /\ state_mutex = "monitor"
    /\ mon_active' = active_source_index
    /\ mon_pc' = "sweep"
    /\ Touch("monitor", {"active_source_index"})
    /\ state_mutex' = "free"
    /\ UNCHANGED <<ctxVars, tsVars, srcVars, readerVars, rpVars, closeVars, last_op, now,
                   out, manual>>

\* lines 300-392: the sweep (line 315 reads last_manual_switch_time when it
\* comes to the active source, which is never the black one) and the choice
\* of the target
MX_MonitorSweep ==
    /\ mon_pc = "sweep"
    /\ LET healthy == [i \in Sources |-> SourceHealthy(i, mon_active, now)]
           best == FailoverTarget(mon_active, healthy)
       IN  /\ is_healthy' = healthy
           /\ IF ~healthy[mon_active] /\ best >= 0
              THEN /\ mon_pc' = "install"
                   /\ UNCHANGED mon_active
              ELSE /\ mon_pc' = (IF health_running THEN "sleep" ELSE "done")
                   /\ mon_active' = NoSource
    /\ Touch("monitor", IF mon_active # black_source THEN {"last_manual_switch_time"} ELSE {})
    /\ UNCHANGED <<ctxVars, tsVars, buffer, last_packet_time, last_consumption_time,
                   packets_read, readerVars, rpVars, closeVars, state_mutex, last_op,
                   now, out, manual>>

\* an installation that does not look whether a switch is pending
MX_MonitorInstall_Overwrite ==
    /\ mon_pc = "install"
    /\ state_mutex = "monitor"
    /\ pending_switch_to' = FailoverTarget(mon_active, is_healthy)
    /\ wait_for_iframe' = TRUE
    /\ pending_switch_time' = now
    /\ Touch("monitor", {"pending_switch_to", "wait_for_iframe", "pending_switch_time"})
    /\ state_mutex' = "free"
    /\ mon_pc' = IF health_running THEN "sleep" ELSE "done"
    /\ mon_active' = NoSource
    /\ UNCHANGED <<active_source_index, last_manual_switch_time, auto_failover_enabled,
                   tsVars, srcVars, readerVars, rpVars, closeVars, last_op, now, out,
                   manual>>

\* line 394
MX_MonitorLockInstall ==
    /\ mon_pc = "install"
    /\ Lock("monitor")
    /\ UNCHANGED <<ctxVars, tsVars, srcVars, readerVars, monVars, rpVars, closeVars,
                   access, last_op,
                   now, out, manual>>

\* lines 395-402
MX_MonitorInstall ==
    /\ mon_pc = "install"
    /\ state_mutex = "monitor"
    /\ IF pending_switch_to < 0
       THEN /\ pending_switch_to' = FailoverTarget(mon_active, is_healthy)
            /\ wait_for_iframe' = TRUE
            /\ pending_switch_time' = now
            /\ Touch("monitor", {"pending_switch_to", "wait_for_iframe",
                                 "pending_switch_time"})
       ELSE /\ UNCHANGED <<pending_switch_to, wait_for_iframe, pending_switch_time>>
            /\ Touch("monitor", {"pending_switch_to"})
    /\ state_mutex' = "free"
    /\ mon_pc' = IF health_running THEN "sleep" ELSE "done"
    /\ mon_active' = NoSource
    /\ UNCHANGED <<active_source_index, last_manual_switch_time, auto_failover_enabled,
                   tsVars, srcVars, readerVars, rpVars, closeVars, last_op, now, out,
                   manual>>

\* line 457, for a request "GET /switch/<n>" with n in range
MX_HttpLock(n, budget) ==
    /\ manual.count < budget
    /\ ctl_pc = "select"
    /\ Lock("control")
    /\ manual' = [manual EXCEPT !.req = SwitchRequest(n)]
    /\ UNCHANGED <<ctxVars, tsVars, srcVars, readerVars, monVars, rpVars, closeVars,
                   access, last_op,
                   now, out>>

\* lines 458-484
MX_HttpWrite ==
    /\ state_mutex = "control"
    /\ active_source_index' = ParseSwitch(manual.req)
    /\ manual' = [target |-> ParseSwitch(manual.req), time |-> now, fresh |-> "yes",
                  count |-> manual.count + 1, via |-> "http", req |-> manual.req,
                  arg |-> NoSource, resp |-> HTTP_OK]
    /\ Touch("control", {"active_source_index"})
    /\ state_mutex' = "free"
    /\ UNCHANGED <<pending_switch_to, wait_for_iframe, pending_switch_time,
                   last_manual_switch_time, auto_failover_enabled, tsVars, srcVars,
                   readerVars, monVars, rpVars, closeVars, last_op, now, out>>

\* line 915, for mswitchdirect_cli_switch(n) with n in range
MX_CliLock(n, budget) ==
    /\ manual.count < budget
    /\ rp_pc # "close"
    /\ Lock("console")
    /\ manual' = [manual EXCEPT !.arg = n]
    /\ UNCHANGED <<ctxVars, tsVars, srcVars, readerVars, monVars, rpVars, closeVars,
                   access, last_op,
                   now, out>>

\* lines 916-924
MX_CliWrite ==
    /\ state_mutex = "console"
    /\ active_source_index' = manual.arg
    /\ last_manual_switch_time' = now
    /\ manual' = [target |-> manual.arg, time |-> now, fresh |-> "yes",
                  count |-> manual.count + 1, via |-> "cli", req |-> NoRequest,
                  arg |-> manual.arg, resp |-> 0]
    /\ Touch("console", {"active_source_index", "last_manual_switch_time"})
    /\ state_mutex' = "free"
    /\ UNCHANGED <<pending_switch_to, wait_for_iframe, pending_switch_time,
                   auto_failover_enabled, tsVars, srcVars, readerVars, monVars, rpVars,
                   closeVars, last_op, now, out>>

\* line 652
MX_ReadLock ==
    /\ rp_pc = "idle"
    /\ Lock("arbiter")
    /\ UNCHANGED <<ctxVars, tsVars, srcVars, readerVars, monVars, rpVars, closeVars,
                   access, last_op,
                   now, out, manual>>

\* lines 653-655
MX_ReadSnapshot ==
    /\ rp_pc = "idle"
    /\ state_mutex = "arbiter"
    /\ rp_active' = active_source_index
    /\ rp_pending' = pending_switch_to
    /\ rp_pc' = "body"
    /\ Touch("arbiter", {"active_source_index", "pending_switch_to"})
    /\ state_mutex' = "free"
    /\ UNCHANGED <<ctxVars, tsVars, srcVars, readerVars, monVars, rpLocals, closeVars,
                   last_op, now, out, manual>>

\* the fields the rest of the call reads outside its critical sections:
\* pending_switch_time (line 748) and wait_for_iframe (line 751) once try_get
\* has taken a packet from the pending queue, last_manual_switch_time (line
\* 798) once the get on the active queue has returned AVERROR_EOF
UnlockedReads(a, p) ==
    IF p >= 0
    THEN IF buffer[p].count > 0 THEN {"pending_switch_time", "wait_for_iframe"} ELSE {}
    ELSE IF QueueIsDone(buffer[a]) /\ auto_failover_enabled
         THEN {"last_manual_switch_time"} ELSE {}

\* lines 657-900, the call after its snapshot up to its return or to the
\* blocking get it waits in; the critical sections of lines 672-674, 694-702,
\* 753-764 and 833-844 are run whole
MX_ReadBody ==
    /\ rp_pc = "body"
    /\ state_mutex = "free"
    /\ IF rp_pending >= 0
       THEN /\ TryPending(rp_active, rp_pending, FreshSwitch)
            /\ UNCHANGED pending_switch_time
       ELSE GetActive(rp_active, FreshSwitch)
    /\ Touch("arbiter", UnlockedReads(rp_active, rp_pending))
    /\ UNCHANGED <<last_manual_switch_time, auto_failover_enabled, last_packet_time,
                   packets_read, is_healthy, readerVars, monVars, state_mutex, last_op,
                   now>>

\* the call that waited in a blocking get goes on
MX_ReadResume ==
    /\ state_mutex = "free"
    /\ \/ /\ rp_pc = "get_active"
          /\ ~GetBlocked(buffer[rp_active])
          /\ GetActive(rp_active, CallSwitch)
          /\ Touch("arbiter", UnlockedReads(rp_active, -1))
       \/ /\ rp_pc = "forced_get"
          /\ ~GetBlocked(buffer[rp_pending])
          /\ ForcedGet(buffer, rp_active, rp_pending, CallSwitch, wait_for_iframe)
          /\ Touch("arbiter", {})
          /\ UNCHANGED pending_switch_time
    /\ UNCHANGED <<last_manual_switch_time, auto_failover_enabled, last_packet_time,
                   packets_read, is_healthy, readerVars, monVars, state_mutex, last_op,
                   now>>

MutexPackets == 1
MutexManual == 1

MutexNext ==
    \/ Tick
    \/ \E i \in Sources : ReaderRead(i, MutexPackets) \/ ReaderFatal(i)
    \/ MX_MonitorLock \/ MX_MonitorSnapshot \/ MX_MonitorSweep
    \/ MX_MonitorLockInstall \/ MX_MonitorInstall
    \/ \E n \in Sources : MX_HttpLock(n, MutexManual) \/ MX_CliLock(n, MutexManual)
    \/ MX_HttpWrite \/ MX_CliWrite
    \/ MX_ReadLock \/ MX_ReadSnapshot \/ MX_ReadBody \/ MX_ReadResume

MutexSpec == Init /\ [][MutexNext]_vars

----------------------------------------------------------------------------
(* The queue functions for themselves: packet_buffer_put,                  *)
(* packet_buffer_get and packet_buffer_try_get are called on the queue of  *)
(* source 0 in any order, with OpPackets packets, and the queue is marked  *)
(* eof at any moment (by its reader on exit, lines 259-262, or by close,   *)
(* lines 1000-1003).                                                       *)
(* last_op is the call made last: the function, the queue, the queue as    *)
(* the call found it, what the call returned and the packet it handed out; *)
(* a call that has to wait is followed up to its pthread_cond_wait and has *)
(* ret = "WAIT".                                                           *)

OpPackets == 4
OpQueues == {0}

OpCall(op, i, ret, pkt) ==
    last_op' = [op |-> op, src |-> i, ret |-> ret, pkt |-> pkt, before |-> buffer[i]]

OpRest ==
    UNCHANGED <<ctxVars, tsVars, last_packet_time, last_consumption_time, packets_read,
                is_healthy, readerVars, monVars, rpVars, closeVars, lockVars, now, out,
                manual>>

Op_Put(i) ==
    /\ Len(buffer[i].put_log) < OpPackets
    /\ \E k \in PacketKinds :
          LET pkt == av_read_frame(i, Len(buffer[i].put_log) + 1, k[1], k[2])
              r == PutResult(buffer[i], pkt)
          IN  IF PutBlocked(buffer[i])
              THEN OpCall("put", i, "WAIT", NoPacket) /\ UNCHANGED buffer
              ELSE /\ OpCall("put", i, r.ret, NoPacket)
                   /\ buffer' = [buffer EXCEPT ![i] = r.buf]
    /\ OpRest

Op_Get(i) ==
    /\ LET r == packet_buffer_get(buffer[i])
       IN  IF GetBlocked(buffer[i])
           THEN OpCall("get", i, "WAIT", NoPacket) /\ UNCHANGED buffer
           ELSE /\ OpCall("get", i, r.ret, r.pkt)
                /\ buffer' = [buffer EXCEPT ![i] = r.buf]
    /\ OpRest

Op_TryGet(i) ==
    /\ LET r == packet_buffer_try_get(buffer[i])
       IN  /\ OpCall("try_get", i, r.ret, r.pkt)
           /\ buffer' = [buffer EXCEPT ![i] = r.buf]
    /\ OpRest

Op_SetEof(i) ==
    /\ ~buffer[i].eof
    /\ OpCall("eof", i, "NONE", NoPacket)
    /\ buffer' = [buffer EXCEPT ![i] = SetEof(@)]
    /\ OpRest

OpNext == \E i \in OpQueues : Op_Put(i) \/ Op_Get(i) \/ Op_TryGet(i) \/ Op_SetEof(i)

OpSpec == QueueInit /\ [][OpNext]_vars

----------------------------------------------------------------------------
(* mswitchdirect_read_packet line by line.  After its snapshot (the steps  *)
(* of lines 652-655 above) the call is followed from one queue operation   *)
(* or critical section of state_mutex to the next, the packet in hand in   *)
(* rp_pkt.  A call that has to wait in packet_buffer_get stays at the step *)
(* that calls it.  The call is followed next to the readers and the        *)
(* control thread, and next to the readers and the monitor.                *)

\* what no step of the read path writes
ST_Rest ==
    UNCHANGED <<last_manual_switch_time, auto_failover_enabled, last_packet_time,
                packets_read, is_healthy, readerVars, monVars, last_op, now>>

swVars == <<active_source_index, pending_switch_to, wait_for_iframe, pending_switch_time>>

\* the call goes on at position pc with pkt in hand
ST_Goto(pc, pkt) ==
    /\ rp_pc' = pc
    /\ rp_pkt' = pkt
    /\ UNCHANGED <<rp_active, rp_pending, rp_data, is_keyframe, closeVars, manual>>

\* the observation of a call in progress that is to finalise a switch
\* for the reason fin (line 766; line 704 for the forced path)
InProgress(fin) ==
    [NoResult EXCEPT !.prev_dts = LastEmittedDts, !.emitted = out.emitted, !.fin = fin]

\* line 660: try_get on the pending source
ST_TryPending ==
    /\ rp_pc = "body"
    /\ rp_pending >= 0
    /\ LET r == packet_buffer_try_get(buffer[rp_pending])
       IN  /\ buffer' = [buffer EXCEPT ![rp_pending] = r.buf]
           /\ IF r.ret = "OK" THEN ST_Goto("scan", r.pkt) ELSE ST_Goto("try_active", NoPacket)
    /\ UNCHANGED <<swVars, tsVars, last_consumption_time, lockVars, out>>
    /\ ST_Rest

\* line 665: try_get on the active source
ST_TryActive ==
    /\ rp_pc = "try_active"
    /\ LET r == packet_buffer_try_get(buffer[rp_active])
       IN  /\ buffer' = [buffer EXCEPT ![rp_active] = r.buf]
           /\ IF r.ret = "OK" THEN ST_Goto("normalise", r.pkt) ELSE ST_Goto("force", NoPacket)
    /\ UNCHANGED <<swVars, tsVars, last_consumption_time, lockVars, out>>
    /\ ST_Rest

\* line 672
ST_ForceLock ==
    /\ rp_pc = "force"
    /\ Lock("arbiter")
    /\ UNCHANGED <<swVars, tsVars, buffer, last_consumption_time, rpVars, closeVars, access,
                   out, manual>>
    /\ ST_Rest

\* a forced switch that goes into the blocking get with state_mutex held
ST_Force_NoUnlock ==
    /\ rp_pc = "force"
    /\ state_mutex = "arbiter"
    /\ wait_for_iframe' = FALSE
    /\ Touch("arbiter", {"wait_for_iframe"})
    /\ UNCHANGED state_mutex
    /\ ST_Goto("forced_get", NoPacket)
    /\ UNCHANGED <<active_source_index, pending_switch_to, pending_switch_time, tsVars,
                   buffer, last_consumption_time, out>>
    /\ ST_Rest

\* lines 673-674
ST_Force ==
    /\ rp_pc = "force"
    /\ state_mutex = "arbiter"
    /\ wait_for_iframe' = FALSE
    /\ Touch("arbiter", {"wait_for_iframe"})
    /\ state_mutex' = "free"
    /\ ST_Goto("forced_get", NoPacket)
    /\ UNCHANGED <<active_source_index, pending_switch_to, pending_switch_time, tsVars,
                   buffer, last_consumption_time, out>>
    /\ ST_Rest

\* lines 677-691: the blocking get on the pending source has a packet or the
\* end of the stream to return; the forced path looks at the container flag
ST_ForcedGet ==
    /\ rp_pc = "forced_get"
    /\ ~GetBlocked(buffer[rp_pending])
    /\ LET r == packet_buffer_get(buffer[rp_pending])
       IN  IF r.ret = "OK" /\ IsKeyframeForced(r.pkt)
           THEN /\ buffer' = [buffer EXCEPT ![rp_pending] = r.buf]
                /\ ST_Goto("finalise", r.pkt)
                /\ out' = InProgress("forced_iframe")
           ELSE /\ buffer' = [buffer EXCEPT ![rp_pending] =
                                 IF r.ret = "OK" THEN av_packet_unref(r.buf, r.pkt)
                                 ELSE r.buf]
                /\ Return(IF r.ret = "OK" THEN "EAGAIN" ELSE "EOF", NoPacket, "none",
                          NoSource)
    /\ UNCHANGED <<swVars, tsVars, last_consumption_time, lockVars>>
    /\ ST_Rest

\* lines 712-751 and 772-775: the keyframe test of the packet taken from the
\* pending source and the decision; pending_switch_time and wait_for_iframe
\* are read without state_mutex
ST_Scan ==
    /\ rp_pc = "scan"
    /\ is_keyframe' = IsKeyframe(rp_pkt)
    /\ Touch("arbiter", {"pending_switch_time", "wait_for_iframe"})
    /\ IF ExecuteSwitch(rp_pkt)
       THEN /\ rp_pc' = "finalise"
            /\ out' = InProgress(Reason(rp_pkt))
            /\ UNCHANGED <<rp_pkt, buffer>>
       ELSE /\ rp_pc' = "fallback_get"
            /\ rp_pkt' = NoPacket
            /\ buffer' = [buffer EXCEPT ![rp_pending] = av_packet_unref(@, rp_pkt)]
            /\ UNCHANGED out
    /\ UNCHANGED <<swVars, tsVars, last_consumption_time, rp_active, rp_pending, rp_data,
                   closeVars, state_mutex, manual>>
    /\ ST_Rest

\* lines 694 and 753
ST_FinaliseLock ==
    /\ rp_pc = "finalise"
    /\ Lock("arbiter")
    /\ UNCHANGED <<swVars, tsVars, buffer, last_consumption_time, rpVars, closeVars, access,
                   out, manual>>
    /\ ST_Rest

\* a finalisation that clears the offset of every source
ST_Finalise_AllOffsets ==
    /\ rp_pc = "finalise"
    /\ state_mutex = "arbiter"
    /\ active_source_index' = rp_pending
    /\ pending_switch_to' = -1
    /\ wait_for_iframe' = FALSE
    /\ first_packet' = TRUE
    /\ last_output_pts' = AV_NOPTS_VALUE
    /\ last_output_dts' = AV_NOPTS_VALUE
    /\ ts_offset' = [i \in Sources |-> 0]
    /\ Touch("arbiter", {"active_source_index", "pending_switch_to", "wait_for_iframe"})
    /\ state_mutex' = "free"
    /\ rp_active' = rp_pending
    /\ rp_pc' = "normalise"
    /\ UNCHANGED <<pending_switch_time, buffer, last_consumption_time, rp_pending, rpLocals,
                   closeVars, out, manual>>
    /\ ST_Rest

\* lines 695-707 and 754-770: the switch is executed
ST_Finalise ==
    /\ rp_pc = "finalise"
    /\ state_mutex = "arbiter"
    /\ active_source_index' = rp_pending
    /\ pending_switch_to' = -1
    /\ wait_for_iframe' = FALSE
    /\ first_packet' = TRUE
    /\ last_output_pts' = AV_NOPTS_VALUE
    /\ last_output_dts' = AV_NOPTS_VALUE
    /\ ts_offset' = [ts_offset EXCEPT ![rp_pending] = 0]
    /\ Touch("arbiter", {"active_source_index", "pending_switch_to", "wait_for_iframe"})
    /\ state_mutex' = "free"
    /\ rp_active' = rp_pending
    /\ rp_pc' = "normalise"
    /\ UNCHANGED <<pending_switch_time, buffer, last_consumption_time, rp_pending, rpLocals,
                   closeVars, out, manual>>
    /\ ST_Rest

\* lines 778-787: the blocking get on the active source has a packet or the
\* end of the stream to return
ST_FallbackGet ==
    /\ rp_pc = "fallback_get"
    /\ ~GetBlocked(buffer[rp_active])
    /\ LET r == packet_buffer_get(buffer[rp_active])
       IN  /\ buffer' = [buffer EXCEPT ![rp_active] = r.buf]
           /\ IF r.ret = "OK"
              THEN ST_Goto("normalise", r.pkt) /\ UNCHANGED out
              ELSE Return(IF auto_failover_enabled THEN "EAGAIN" ELSE "EOF", NoPacket,
                          "none", NoSource)
    /\ UNCHANGED <<swVars, tsVars, last_consumption_time, lockVars>>
    /\ ST_Rest

\* lines 792-831 and 845-855: the blocking get on the active source has a
\* packet or the end of the stream to return; at the end of the stream the
\* failover target is chosen, last_manual_switch_time read without state_mutex
ST_GetActive ==
    /\ rp_pc = "body"
    /\ rp_pending < 0
    /\ ~GetBlocked(buffer[rp_active])
    /\ LET r == packet_buffer_get(buffer[rp_active])
           best_source == FailoverTarget(rp_active, is_healthy)
       IN  /\ buffer' = [buffer EXCEPT ![rp_active] = r.buf]
           /\ IF r.ret = "OK"
              THEN ST_Goto("normalise", r.pkt) /\ UNCHANGED <<out, access>>
              ELSE /\ Touch("arbiter", IF auto_failover_enabled
                                       THEN {"last_manual_switch_time"} ELSE {})
                   /\ IF /\ auto_failover_enabled
                         /\ ~(now - last_manual_switch_time < ManualGraceMs)
                         /\ best_source >= 0
                      THEN ST_Goto("install", NoPacket) /\ UNCHANGED out
                      ELSE Return(IF auto_failover_enabled THEN "EAGAIN" ELSE "EOF",
                                  NoPacket, "none", NoSource)
    /\ UNCHANGED <<swVars, tsVars, last_consumption_time, state_mutex>>
    /\ ST_Rest

\* line 833
ST_InstallLock ==
    /\ rp_pc = "install"
    /\ Lock("arbiter")
    /\ UNCHANGED <<swVars, tsVars, buffer, last_consumption_time, rpVars, closeVars, access,
                   out, manual>>
    /\ ST_Rest

\* lines 834-844 and 854; best_source is what lines 813-829 chose (the black
\* source, or the first healthy one, and is_healthy of a source that was
\* healthy can only have changed to make an earlier one healthy)
ST_Install ==
    /\ rp_pc = "install"
    /\ state_mutex = "arbiter"
    /\ IF pending_switch_to < 0
       THEN /\ pending_switch_to' = FailoverTarget(rp_active, is_healthy)
            /\ wait_for_iframe' = TRUE
            /\ pending_switch_time' = now
            /\ Touch("arbiter", {"pending_switch_to", "wait_for_iframe",
                                 "pending_switch_time"})
            /\ Return("EAGAIN", NoPacket, "none", NoSource)
       ELSE /\ UNCHANGED <<pending_switch_to, wait_for_iframe, pending_switch_time>>
            /\ Touch("arbiter", {"pending_switch_to"})
            /\ Return("EOF", NoPacket, "none", NoSource)
    /\ state_mutex' = "free"
    /\ UNCHANGED <<active_source_index, tsVars, buffer, last_consumption_time>>
    /\ ST_Rest

\* lines 859-899 and return 0
ST_Normalise ==
    /\ rp_pc = "normalise"
    /\ UNCHANGED <<swVars, buffer, lockVars>>
    /\ Emit(rp_pkt, rp_active, first_packet, last_output_pts, last_output_dts, ts_offset,
            IF out.ret = "NONE" THEN out.fin ELSE "none", NoSource)
    /\ ST_Rest

StepPackets == 3
StepManual == 1

\* the read path, the readers and the control thread, while the clock stands
StepNext ==
    \/ \E i \in Sources : ReaderRead(i, StepPackets) \/ ReaderPut(i) \/ ReaderFatal(i)
    \/ MX_HttpWrite \/ \E n \in Sources : MX_HttpLock(n, StepManual)
    \/ MX_ReadLock \/ MX_ReadSnapshot
    \/ ST_TryPending \/ ST_TryActive \/ ST_ForceLock \/ ST_Force \/ ST_ForcedGet
    \/ ST_Scan \/ ST_FinaliseLock \/ ST_Finalise \/ ST_FallbackGet
    \/ ST_GetActive \/ ST_InstallLock \/ ST_Install \/ ST_Normalise

StepSpec == Init /\ [][StepNext]_vars

StepMonitorPackets == 2

\* the read path, the readers and the monitor
StepMonitorNext ==
    \/ Tick
    \/ \E i \in Sources :
          ReaderRead(i, StepMonitorPackets) \/ ReaderPut(i) \/ ReaderFatal(i)
    \/ MX_MonitorLock \/ MX_MonitorSnapshot \/ MX_MonitorSweep
    \/ MX_MonitorLockInstall \/ MX_MonitorInstall
    \/ MX_ReadLock \/ MX_ReadSnapshot
    \/ ST_TryPending \/ ST_TryActive \/ ST_ForceLock \/ ST_Force \/ ST_ForcedGet
    \/ ST_Scan \/ ST_FinaliseLock \/ ST_Finalise \/ ST_FallbackGet
    \/ ST_GetActive \/ ST_InstallLock \/ ST_Install \/ ST_Normalise

StepMonitorSpec == Init /\ [][StepMonitorNext]_vars

----------------------------------------------------------------------------
(* The normaliser for itself: lines 858-899 are applied to NormPackets     *)
(* packets in a row, each from any source and with any of the timestamps   *)
(* of NormTs, unknown ones included, as its pts and as its dts.            *)

NormPackets == 3
NormTs == {AV_NOPTS_VALUE, 0, TsThreshold, TsThreshold + 1}

\* the call has the packet with these timestamps in hand, taken from the
\* queue of source a
Norm_Take(a, pts, dts) ==
    /\ rp_pc = "idle"
    /\ Len(out.emitted) < NormPackets
    /\ rp_pc' = "normalise"
    /\ rp_active' = a
    /\ rp_pkt' = [NoPacket EXCEPT !.src = a, !.seq = Len(out.emitted) + 1,
                                  !.pts = pts, !.dts = dts]
    /\ UNCHANGED <<ctxVars, tsVars, srcVars, readerVars, monVars, rp_pending, rp_data,
                   is_keyframe, closeVars, lockVars, last_op, now, out, manual>>

NormNext ==
    \/ \E a \in Sources, pts \in NormTs, dts \in NormTs : Norm_Take(a, pts, dts)
    \/ ST_Normalise

NormSpec == Init /\ [][NormNext]_vars

----------------------------------------------------------------------------
(* source_reader_thread with av_read_frame's errors told apart: reader_pc  *)
(* is "EOF", "EAGAIN" or "EIO" when av_read_frame has just returned        *)
(* AVERROR_EOF, AVERROR(EAGAIN) or another error (AVERROR(EIO) stands for  *)
(* all of them).  The readers run next to the read path and to read_close. *)

NoData == {"EOF", "EAGAIN"}
ReadErrors == NoData \cup {"EIO"}

\* what no step of a reader writes
RD_Rest ==
    UNCHANGED <<ctxVars, tsVars, last_consumption_time, is_healthy, monVars, rpVars,
                closeVars, lockVars, last_op, now, out, manual>>

\* lines 228-230: thread_running is found set and av_read_frame returns ret < 0
RD_ReadFrame(i, ret) ==
    /\ reader_pc[i] = "read"
    /\ thread_running[i]
    /\ reader_pc' = [reader_pc EXCEPT ![i] = ret]
    /\ UNCHANGED <<buffer, last_packet_time, packets_read, reader_pkt>>
    /\ RD_Rest

\* a retry that counts as a sign of life
RD_Retry_Alive(i) ==
    /\ reader_pc[i] \in NoData
    /\ reader_pc' = [reader_pc EXCEPT ![i] = "read"]
    /\ last_packet_time' = [last_packet_time EXCEPT ![i] = now]
    /\ UNCHANGED <<buffer, packets_read, reader_pkt>>
    /\ RD_Rest

\* lines 231-237: no data; sleep 10 ms, unref, continue
RD_Retry(i) ==
    /\ reader_pc[i] \in NoData
    /\ reader_pc' = [reader_pc EXCEPT ![i] = "read"]
    /\ UNCHANGED <<buffer, last_packet_time, packets_read, reader_pkt>>
    /\ RD_Rest

\* lines 238 and 258-264: any other error; break, mark the queue eof, return
RD_Break(i) ==
    /\ reader_pc[i] \in ReadErrors \ NoData
    /\ buffer' = [buffer EXCEPT ![i] = SetEof(@)]
    /\ reader_pc' = [reader_pc EXCEPT ![i] = "done"]
    /\ UNCHANGED <<last_packet_time, packets_read, reader_pkt>>
    /\ RD_Rest

ReaderPackets == 2

ReaderNext ==
    \/ Tick
    \/ \E i \in Sources :
          \/ \E ret \in ReadErrors : RD_ReadFrame(i, ret)
          \/ RD_Retry(i) \/ RD_Break(i)
          \/ ReaderRead(i, ReaderPackets) \/ ReaderPut(i) \/ ReaderStop(i)
    \/ RP_Start \/ RP_ForcedGet \/ RP_GetActive
    \/ MonitorExit \/ ControlExit
    \/ Close

ReaderSpec == Init /\ [][ReaderNext]_vars

----------------------------------------------------------------------------
(* The keyframe test for itself.  The payload of a packet is the sequence  *)
(* of its bytes (data[i] of the source is rp_data[i + 1]); the test of     *)
(* lines 712-736 and the one of line 683 are applied to every payload of   *)
(* up to MaxPayload bytes of ScanBytes, with the container flag set and    *)
(* not.  (Elsewhere the outcome of the scan is the field nal of a packet.) *)

MaxPayload == 5
\* 0x00, 0x01, 0x41 (a NAL of type 1) and 0x65 (a NAL of type 5)
ScanBytes == {0, 1, 65, 101}

Payloads == UNION {[1 .. n -> ScanBytes] : n \in 0 .. MaxPayload}

\* lines 721-722 and 728-729: nal_type = byte & 0x1F is 5, 7 or 8
KeyNalType(byte) == (byte % 32) \in {5, 7, 8}

\* the loop of lines 719-735 from index i on
RECURSIVE NalScanFrom(_, _)
NalScanFrom(data, i) ==
    IF ~(i < Len(data) - 4) THEN FALSE
    ELSE IF data[i + 1] = 0 /\ data[i + 2] = 0 /\ data[i + 3] = 1
    THEN IF KeyNalType(data[i + 4]) THEN TRUE ELSE NalScanFrom(data, i + 1)
    ELSE IF /\ data[i + 1] = 0 /\ data[i + 2] = 0 /\ data[i + 3] = 0 /\ data[i + 4] = 1
            /\ i + 4 < Len(data)
    THEN IF KeyNalType(data[i + 5]) THEN TRUE ELSE NalScanFrom(data, i + 1)
    ELSE NalScanFrom(data, i + 1)

\* lines 715-736: the scan of a packet that has no keyframe flag
NalScan(data) == Len(data) > 4 /\ NalScanFrom(data, 0)

\* the call has a packet with this flag and this payload in hand, taken from
\* the pending source by try_get (path "scan", line 660) or by the blocking
\* get of the forced switch (path "forced", line 677)
SC_Take(flags, data, path) ==
    /\ rp_pc = "idle"
    /\ rp_pc' = path
    /\ rp_pkt' = [NoPacket EXCEPT !.src = 0, !.seq = 1, !.flags = flags]
    /\ rp_data' = data
    /\ UNCHANGED <<ctxVars, tsVars, srcVars, readerVars, monVars, rp_active, rp_pending,
                   is_keyframe, closeVars, lockVars, last_op, now, out, manual>>

\* lines 712-736
SC_Scan ==
    /\ rp_pc = "scan"
    /\ is_keyframe' = (rp_pkt.flags = AV_PKT_FLAG_KEY \/ NalScan(rp_data))
    /\ rp_pc' = "scanned"
    /\ UNCHANGED <<ctxVars, tsVars, srcVars, readerVars, monVars, rp_active, rp_pending,
                   rp_pkt, rp_data, closeVars, lockVars, last_op, now, out, manual>>

\* line 683
SC_Forced ==
    /\ rp_pc = "forced"
    /\ is_keyframe' = (rp_pkt.flags = AV_PKT_FLAG_KEY)
    /\ rp_pc' = "tested"
    /\ UNCHANGED <<ctxVars, tsVars, srcVars, readerVars, monVars, rp_active, rp_pending,
                   rp_pkt, rp_data, closeVars, lockVars, last_op, now, out, manual>>

ScanNext ==
    \/ \E flags \in {0, AV_PKT_FLAG_KEY}, data \in Payloads, path \in {"scan", "forced"} :
          SC_Take(flags, data, path)
    \/ SC_Scan \/ SC_Forced

ScanSpec == Init /\ [][ScanNext]_vars

----------------------------------------------------------------------------
(* mswitchdirect_read_header from line 600 on, step by step.  The readers  *)
(* run already (line 544) and the control socket listens (line 594); the   *)
(* fields of the context that no line has assigned yet are 0, as the       *)
(* framework allocates the context zeroed, and state_mutex is "uninit"     *)
(* until pthread_mutex_init.  rp_pc is the position of the thread that     *)
(* calls the demuxer: "open" before line 600, "open_init" before line 603, *)
(* "open_health" before line 620, "idle" once the function has returned.   *)
(* pthread_mutex_lock on the zeroed state_mutex is followed where it       *)
(* returns, as it does on a mutex whose static initialiser is all zero.    *)

OpenInit ==
    /\ active_source_index = 0
    /\ pending_switch_to = 0
    /\ wait_for_iframe = FALSE
    /\ pending_switch_time = 0
    /\ last_manual_switch_time = 0
    /\ first_packet = FALSE
    /\ last_output_pts = 0
    /\ last_output_dts = 0
    /\ ts_offset = [i \in Sources |-> 0]
    /\ auto_failover_enabled = TRUE
    /\ buffer = [i \in Sources |-> packet_buffer_init(PACKET_BUFFER_SIZE)]
    /\ last_packet_time = [i \in Sources |-> 0]
    /\ last_consumption_time = [i \in Sources |-> 0]
    /\ packets_read = [i \in Sources |-> 0]
    /\ is_healthy = [i \in Sources |-> TRUE]
    /\ reader_pc = [i \in Sources |-> "read"]
    /\ reader_pkt = [i \in Sources |-> NoPacket]
    /\ mon_pc = "none"
    /\ mon_active = NoSource
    /\ rp_pc = "open"
    /\ rp_active = NoSource
    /\ rp_pending = NoSource
    /\ rp_pkt = NoPacket
    /\ rp_data = <<>>
    /\ is_keyframe = FALSE
    /\ now = startup_time
    /\ out = NoResult
    /\ manual = [target |-> NoSource, time |-> 0, fresh |-> "no", count |-> 0,
                 via |-> "none", req |-> NoRequest, arg |-> NoSource, resp |-> 0]
    /\ health_running = FALSE
    /\ control_running = FALSE
    /\ thread_running = [i \in Sources |-> TRUE]
    /\ ctl_pc = "none"
    /\ close_pc = "none"
    /\ close_i = 0
    /\ joined = <<>>
    /\ state_mutex = "uninit"
    /\ access = NoAccess
    /\ last_op = NoOp

\* lines 600-601: the control thread is created
Open_StartControl ==
    /\ rp_pc = "open"
    /\ rp_pc' = "open_init"
    /\ control_running' = TRUE
    /\ ctl_pc' = "select"
    /\ UNCHANGED <<ctxVars, tsVars, srcVars, readerVars, monVars, rp_active, rp_pending,
                   rpLocals, health_running, thread_running, joinVars, lockVars, last_op,
                   now, out, manual>>

\* lines 603-618: state_mutex and the switcher state are initialised
Open_InitState ==
    /\ rp_pc = "open_init"
    /\ rp_pc' = "open_health"
    /\ state_mutex' = "free"
    /\ active_source_index' = 0
    /\ first_packet' = TRUE
    /\ last_output_pts' = AV_NOPTS_VALUE
    /\ last_output_dts' = AV_NOPTS_VALUE
    /\ ts_offset' = [i \in Sources |-> 0]
    /\ pending_switch_to' = -1
    /\ wait_for_iframe' = FALSE
    /\ last_manual_switch_time' = 0
    /\ UNCHANGED <<pending_switch_time, auto_failover_enabled, srcVars, readerVars, monVars,
                   rp_active, rp_pending, rpLocals, closeVars, access, last_op, now, out,
                   manual>>

\* lines 620-641: the monitor is created and the function returns
Open_StartHealth ==
    /\ rp_pc = "open_health"
    /\ rp_pc' = "idle"
    /\ health_running' = auto_failover_enabled
    /\ mon_pc' = IF auto_failover_enabled THEN "sleep" ELSE "none"
    /\ UNCHANGED <<ctxVars, tsVars, srcVars, readerVars, mon_active, rp_active, rp_pending,
                   rpLocals, control_running, thread_running, ctl_pc, joinVars, lockVars,
                   last_op, now, out, manual>>

OpenPackets == 2
OpenRequests == 1

OpenNext ==
    \/ Open_StartControl \/ Open_InitState \/ Open_StartHealth
    \/ \E req \in Requests : HttpRequest(req, OpenRequests)
    \/ \E i \in Sources : ReaderRead(i, OpenPackets) \/ ReaderPut(i)
    \/ RP_Start \/ RP_GetActive

OpenSpec == OpenInit /\ [][OpenNext]_vars

----------------------------------------------------------------------------
(* The condition variable of a queue.  Here pthread_cond_wait is a place a *)
(* thread stays at, not an enabling condition: reader_pc[i] = "cv_wait" is *)
(* the reader inside the wait of line 153, rp_pc = "cv_wait" the thread    *)
(* that reads inside the wait of line 178, and "cv_ready" is a thread that *)
(* was unblocked and has still to take buf->mutex again and to test the    *)
(* condition of its while loop.  pthread_cond_signal unblocks at least one *)
(* of the threads that wait, pthread_cond_broadcast all of them, and a     *)
(* wait may return for no reason.  One queue is followed, with its reader, *)
(* the thread that calls get and try_get on it, and read_close's loop body *)
(* for it (lines 998-1007).                                                *)

CondPackets == 4

\* the threads inside pthread_cond_wait on the queue of source i
Waiters(i) ==
    (IF reader_pc[i] = "cv_wait" THEN {"reader"} ELSE {}) \cup
    (IF rp_pc = "cv_wait" THEN {"arbiter"} ELSE {})

\* the threads in woken are unblocked; me moves to mypc
CV_Wake(i, woken, me, mypc) ==
    /\ reader_pc' = [reader_pc EXCEPT ![i] =
                        IF me = "reader" THEN mypc
                        ELSE IF "reader" \in woken THEN "cv_ready" ELSE @]
    /\ rp_pc' = IF me = "arbiter" THEN mypc
                ELSE IF "arbiter" \in woken THEN "cv_ready" ELSE rp_pc

\* a signal that unblocks nobody
pthread_cond_signal_Lost(i, me, mypc) == CV_Wake(i, {}, me, mypc)

\* pthread_cond_signal
pthread_cond_signal(i, me, mypc) ==
    IF Waiters(i) = {}
    THEN CV_Wake(i, {}, me, mypc)
    ELSE \E woken \in (SUBSET Waiters(i)) \ {{}} : CV_Wake(i, woken, me, mypc)

\* pthread_cond_broadcast
pthread_cond_broadcast(i, me, mypc) == CV_Wake(i, Waiters(i), me, mypc)

CV_Rest ==
    UNCHANGED <<ctxVars, tsVars, last_consumption_time, is_healthy, monVars, rp_active,
                rp_pending, rpLocals, health_running, control_running, ctl_pc, joinVars,
                lockVars, now, out, manual>>

\* lines 229-243: av_read_frame delivers a packet
CV_ReadFrame(i) ==
    /\ reader_pc[i] = "read"
    /\ thread_running[i]
    /\ TotalRead < CondPackets
    /\ last_packet_time' = [last_packet_time EXCEPT ![i] = now]
    /\ packets_read' = [packets_read EXCEPT ![i] = @ + 1]
    /\ \E k \in PacketKinds :
          reader_pkt' = [reader_pkt EXCEPT ![i] =
                            av_read_frame(i, packets_read[i] + 1, k[1], k[2])]
    /\ reader_pc' = [reader_pc EXCEPT ![i] = "put"]
    /\ UNCHANGED <<buffer, rp_pc, thread_running, last_op>>
    /\ CV_Rest

\* lines 149-169: packet_buffer_put from its lock ("put") or from the return
\* of its wait ("cv_ready") to its wait or to its return
CV_Put(i) ==
    /\ reader_pc[i] \in {"put", "cv_ready"}
    /\ IF PutBlocked(buffer[i])
       THEN /\ CV_Wake(i, {}, "reader", "cv_wait")
            /\ OpCall("put", i, "WAIT", NoPacket)
            /\ UNCHANGED <<buffer, reader_pkt>>
       ELSE LET r == PutResult(buffer[i], reader_pkt[i])
            IN  /\ buffer' = [buffer EXCEPT ![i] = r.buf]
                /\ OpCall("put", i, r.ret, NoPacket)
                /\ reader_pkt' = [reader_pkt EXCEPT ![i] = NoPacket]
                /\ IF r.ret = "OK"
                   THEN pthread_cond_signal(i, "reader", "read")
                   ELSE CV_Wake(i, {}, "reader", "exit")
    /\ UNCHANGED <<last_packet_time, packets_read, thread_running>>
    /\ CV_Rest

\* lines 228 and 238: the loop ends, on thread_running or on an error
CV_Break(i) ==
    /\ reader_pc[i] = "read"
    /\ reader_pc' = [reader_pc EXCEPT ![i] = "exit"]
    /\ UNCHANGED <<buffer, last_packet_time, packets_read, reader_pkt, rp_pc,
                   thread_running, last_op>>
    /\ CV_Rest

\* lines 259-262: the reader marks its queue and broadcasts
CV_ReaderEof(i) ==
    /\ reader_pc[i] = "exit"
    /\ buffer' = [buffer EXCEPT ![i] = SetEof(@)]
    /\ OpCall("eof", i, "NONE", NoPacket)
    /\ pthread_cond_broadcast(i, "reader", "done")
    /\ UNCHANGED <<last_packet_time, packets_read, reader_pkt, thread_running>>
    /\ CV_Rest

\* lines 174-195: packet_buffer_get from its lock ("idle") or from the return
\* of its wait ("cv_ready") to its wait or to its return
CV_Get(i) ==
    /\ rp_pc \in {"idle", "cv_ready"}
    /\ IF GetBlocked(buffer[i])
       THEN /\ CV_Wake(i, {}, "arbiter", "cv_wait")
            /\ OpCall("get", i, "WAIT", NoPacket)
            /\ UNCHANGED buffer
       ELSE LET r == packet_buffer_get(buffer[i])
            IN  /\ buffer' = [buffer EXCEPT ![i] = r.buf]
                /\ OpCall("get", i, r.ret, r.pkt)
                /\ IF r.ret = "OK"
                   THEN pthread_cond_signal(i, "arbiter", "idle")
                   ELSE CV_Wake(i, {}, "arbiter", "idle")
    /\ UNCHANGED <<last_packet_time, packets_read, reader_pkt, thread_running>>
    /\ CV_Rest

\* lines 201-218: packet_buffer_try_get
CV_TryGet(i) ==
    /\ rp_pc = "idle"
    /\ LET r == packet_buffer_try_get(buffer[i])
       IN  /\ buffer' = [buffer EXCEPT ![i] = r.buf]
           /\ OpCall("try_get", i, r.ret, r.pkt)
           /\ IF r.ret = "OK"
              THEN pthread_cond_signal(i, "arbiter", "idle")
              ELSE CV_Wake(i, {}, "arbiter", "idle")
    /\ UNCHANGED <<last_packet_time, packets_read, reader_pkt, thread_running>>
    /\ CV_Rest

\* lines 998-1003: read_close stops the reader, marks the queue, broadcasts
CV_Close(i) ==
    /\ rp_pc = "idle"
    /\ thread_running' = [thread_running EXCEPT ![i] = FALSE]
    /\ buffer' = [buffer EXCEPT ![i] = SetEof(@)]
    /\ OpCall("eof", i, "NONE", NoPacket)
    /\ pthread_cond_broadcast(i, "arbiter", "close")
    /\ UNCHANGED <<last_packet_time, packets_read, reader_pkt>>
    /\ CV_Rest

\* pthread_cond_wait returns though nobody signalled
CV_Spurious(i) ==
    /\ Waiters(i) # {}
    /\ \E t \in Waiters(i) : CV_Wake(i, {t}, "none", "none")
    /\ UNCHANGED <<buffer, last_packet_time, packets_read, reader_pkt, thread_running,
                   last_op>>
    /\ CV_Rest

CondNext ==
    \E i \in OpQueues :
        \/ CV_ReadFrame(i) \/ CV_Put(i) \/ CV_Break(i) \/ CV_ReaderEof(i)
        \/ CV_Get(i) \/ CV_TryGet(i) \/ CV_Close(i)
        \/ CV_Spurious(i)

CondSpec == QueueInit /\ [][CondNext]_vars

----------------------------------------------------------------------------
(* Properties.                                                             *)

\* the packet is a keyframe: flagged by the container or carrying an IDR, SPS
\* or PPS NAL
KeyPacket(pkt) == pkt.flags = AV_PKT_FLAG_KEY \/ pkt.nal

QueueDone(i) == buffer[i].eof /\ buffer[i].count = 0

\* the read call in progress waits in a packet_buffer_get that cannot return
ArbiterBlocked ==
    \/ rp_pc \in {"get_active", "fallback_get"} /\ GetBlocked(buffer[rp_active])
    \/ rp_pc = "forced_get" /\ GetBlocked(buffer[rp_pending])

\* C1: the DTS of every packet handed downstream is at least the DTS of the
\* packet handed downstream before it
C1_MonotonicDts ==
    (out.ret = "OK" /\ out.pkt.dts # AV_NOPTS_VALUE /\ out.prev_dts # AV_NOPTS_VALUE)
        => out.pkt.dts >= out.prev_dts

\* C2: when a failover to the black source is pending for an active source
\* whose queue is empty and not eof, and a keyframe is at the head of the black
\* queue, the read path is able to finalise the switch on it: the read call
\* in progress is not waiting in a get that cannot return
C2_FailoverToBlackFinalises ==
    ( /\ active_source_index # black_source
      /\ GetBlocked(buffer[active_source_index])
      /\ pending_switch_to = black_source
      /\ buffer[black_source].count > 0
      /\ buffer[black_source].packets[buffer[black_source].read_index].flags
            = AV_PKT_FLAG_KEY )
        => ~ArbiterBlocked

\* the lowest-indexed source other than the black one whose queue holds a packet
LowestReady ==
    CHOOSE i \in Sources :
        /\ i < black_source /\ buffer[i].count > 0
        /\ \A j \in Sources : (j < black_source /\ buffer[j].count > 0) => i <= j

\* C3: a sweep of the monitor made while the black source is active, no switch
\* is pending and a queue of another source holds a packet installs a pending
\* switch to the lowest-indexed such source
C3_MonitorLeavesBlack ==
    [][ ( /\ mon_pc = "sweep" /\ mon_pc' = "sleep"
          /\ mon_active = black_source /\ active_source_index = black_source
          /\ pending_switch_to < 0
          /\ \E i \in Sources : i < black_source /\ buffer[i].count > 0 )
        => pending_switch_to' = LowestReady ]_vars

\* C4: a read call that finalises a switch for another reason than the 3000 ms
\* timeout hands a keyframe downstream
C4_OnlyKeyframeOrTimeout ==
    out.fin \in {"iframe", "forced", "forced_iframe"} => KeyPacket(out.pkt)

\* C5: a step that is not a manual switch does not move active_source_index
\* away from the target of the last manual switch before 3000 ms have passed
\* since that switch
C5_ManualSwitchGrace ==
    [][ ( /\ manual.target # NoSource
          /\ active_source_index = manual.target
          /\ active_source_index' # active_source_index
          /\ manual'.count = manual.count )
        => now - manual.time >= ManualGraceMs ]_vars

\* C6: a read call that started right after a manual switch to N and hands a
\* packet downstream hands a packet of source N's queue
C6_NextPacketFromManualTarget ==
    (out.ret = "OK" /\ out.want # NoSource) => out.src = out.want

\* C7: when a switch has been pending for more than 3000 ms and the target's
\* queue holds a packet, the read call in progress is not waiting in a get
\* that cannot return
C7_TimeoutFinalises ==
    ( /\ pending_switch_to >= 0
      /\ now - pending_switch_time > SwitchTimeoutMs
      /\ buffer[pending_switch_to].count > 0 )
        => ~ArbiterBlocked

\* C8: a read call that finalises a switch because the packet it took from the
\* pending queue is a keyframe hands that packet downstream, unmodified, as the
\* first packet of the new active source
C8_KeyframeSwitchEmitsKeyframe ==
    out.fin = "iframe"
        => /\ out.ret = "OK"
           /\ KeyPacket(out.pkt)
           /\ out.src = out.to
           /\ out.pkt = av_read_frame(out.src, out.pkt.seq, out.pkt.flags, out.pkt.nal)

\* a switch finalised on a keyframe that only the NAL scan recognises, after a
\* packet of the previous source was emitted
C8_Witness ==
    /\ out.fin = "iframe" /\ out.pkt.flags = 0 /\ out.pkt.nal
    /\ out.prev_dts # AV_NOPTS_VALUE /\ active_source_index = out.src

\* C9: a step that installs a pending switch while the active source is not the
\* black source installs the black source as the target
C9_TargetIsBlack ==
    [][ ( /\ pending_switch_to < 0 /\ pending_switch_to' >= 0
          /\ active_source_index # black_source )
        => pending_switch_to' = black_source ]_vars

\* C10: a read call returns end-of-stream only when every queue is at eof and
\* empty
C10_EofOnlyWhenAllQueuesDone ==
    out.ret = "EOF" => \A i \in Sources : QueueDone(i)

\* str is a non-negative decimal number: one digit or more, nothing else
IsDecimal(str) == str # <<>> /\ \A k \in 1 .. Len(str) : str[k] \in Digits

RECURSIVE DecimalValue(_)
DecimalValue(str) ==
    IF str = <<>> THEN 0
    ELSE 10 * DecimalValue(SubSeq(str, 1, Len(str) - 1)) + DigitValue(str[Len(str)])

\* str is a decimal number, possibly negative, outside [0, num_sources)
OutOfRangeNumber(str) ==
    \/ IsDecimal(str) /\ DecimalValue(str) >= num_sources
    \/ str # <<>> /\ Head(str) = "-" /\ IsDecimal(Tail(str)) /\ DecimalValue(Tail(str)) > 0

\* the step handles a control request (HTTP or console)
ControlStep == manual'.count = manual.count + 1

C13_MalformedRejected ==
    [][ ( /\ ControlStep
          /\ manual'.via = "http"
          /\ ~( /\ manual'.req.path = "/switch/"
                /\ IsDecimal(manual'.req.token)
                /\ DecimalValue(manual'.req.token) < num_sources ) )
        => /\ manual'.resp = HTTP_BAD_REQUEST
           /\ UNCHANGED active_source_index ]_vars

\* C14: GET /status is answered with a success response
C14_StatusAnswered ==
    (manual.via = "http" /\ manual.req.method = "GET" /\ manual.req.path = "/status")
        => manual.resp = HTTP_OK

\* C11: when every queue is at eof and empty, a read call that returns "try
\* again" outside the manual grace period has brought the end of the stream
\* nearer: it has installed a pending switch (on whose queue the next call
\* meets the end of the stream)
C11_RetryEndsInEof ==
    [][ ( /\ \A i \in Sources : QueueDone(i)
          /\ rp_pc = "idle" /\ rp_pc' = "idle" /\ out' # out
          /\ out'.ret = "EAGAIN"
          /\ ~(now - last_manual_switch_time < ManualGraceMs) )
        => pending_switch_to' # pending_switch_to ]_vars

\* C15: the count of every queue stays within 0 and the capacity of the ring,
\* and equals the number of packets stored by put minus the number moved out
\* by get and try_get
C15_QueueBounds ==
    \A i \in Sources :
        /\ 0 <= buffer[i].count
        /\ buffer[i].count <= Capacity(buffer[i])
        /\ buffer[i].count = Len(buffer[i].put_log) - Len(buffer[i].get_log)

\* a full ring with its reader waiting in put, after a packet was taken out
C15_Witness ==
    \E i \in Sources :
        /\ buffer[i].count = QueueCapacity /\ reader_pc[i] = "put"
        /\ Len(buffer[i].get_log) >= 1

\* C16: the packets get and try_get moved out of a queue are, in order, the
\* first of the packets put stored in it
C16_Fifo ==
    \A i \in Sources :
        /\ Len(buffer[i].get_log) <= Len(buffer[i].put_log)
        /\ buffer[i].get_log = SubSeq(buffer[i].put_log, 1, Len(buffer[i].get_log))

\* more packets went through one ring than it has slots, and one is still in it
C16_Witness ==
    \E i \in Sources :
        /\ Len(buffer[i].get_log) > QueueCapacity
        /\ buffer[i].count >= 1
        /\ buffer[i].read_index # buffer[i].write_index

\* how often x occurs in the sequence seq
Occurrences(seq, x) == Cardinality({k \in 1 .. Len(seq) : seq[k] = x})

C18_BlackAlwaysHealthy == is_healthy[black_source]

\* the monitor has swept and found source 0 unhealthy while the black source,
\* not active, has failed and its queue is empty
C18_Witness ==
    /\ ~is_healthy[0] /\ is_healthy[black_source]
    /\ active_source_index # black_source
    /\ buffer[black_source].count = 0 /\ buffer[black_source].eof

\* C19: active_source_index is in [0, num_sources) and pending_switch_to is -1
\* or in [0, num_sources)
C19_IndicesInRange ==
    /\ active_source_index \in 0 .. (num_sources - 1)
    /\ pending_switch_to \in -1 .. (num_sources - 1)

\* after a manual switch, a finalised switch has made the black source active
\* and a switch back to a real source is pending
C19_Witness ==
    /\ manual.count = 1 /\ manual.target # black_source
    /\ active_source_index = black_source
    /\ pending_switch_to >= 0 /\ pending_switch_to < black_source

\* the startup grace period is running
InStartupGrace == now - startup_time < startup_grace_period_ms

\* C20: during the startup grace period no step changes is_healthy, and no
\* step of the monitor changes pending_switch_to
C20_StartupGrace ==
    [][ InStartupGrace
        => /\ is_healthy' = is_healthy
           /\ (mon_pc' # mon_pc => pending_switch_to' = pending_switch_to) ]_vars

\* during the grace period the active source has failed without a packet, the
\* queue of source 1 is empty, the read path has installed a failover, and
\* every source still counts as healthy
C20_Witness ==
    /\ InStartupGrace
    /\ packets_read[0] = 0 /\ buffer[0].eof /\ active_source_index = 0
    /\ buffer[1].count = 0
    /\ pending_switch_to = black_source
    /\ \A i \in Sources : is_healthy[i]

\* C21: once close has started, it comes to its end: every join returns
C21_CloseTerminates == (close_pc # "none") ~> (close_pc = "done")

\* the place of a thread in the order readers, monitor, control thread
JoinRank(t) == IF t[1] = "reader" THEN 0 ELSE IF t[1] = "health" THEN 1 ELSE 2

\* C22: when a join of close has returned, every queue is marked eof, and the
\* joins return in the order readers, monitor, control thread
C22_JoinOrder ==
    /\ joined # <<>> => \A i \in Sources : buffer[i].eof
    /\ \A k, l \in 1 .. Len(joined) : k < l => JoinRank(joined[k]) <= JoinRank(joined[l])

\* the fields state_mutex protects
Protected ==
    {"active_source_index", "pending_switch_to", "wait_for_iframe", "pending_switch_time",
     "last_manual_switch_time"}

\* C23: the thread that has just read or written a field that state_mutex
\* protects held state_mutex when it did
C23_AccessUnderMutex == (access.fields \cap Protected # {}) => access.held

\* C24: a step that carries out a manual switch to N, over HTTP or from the
\* console, sets active_source_index to N and last_manual_switch_time to the
\* time of the switch
C24_SameUpdate ==
    [][ ( /\ ControlStep
          /\ \/ /\ manual'.via = "http"
                /\ manual'.req.method \in {"GET", "POST"}
                /\ manual'.req.path = "/switch/"
                /\ IsDecimal(manual'.req.token)
                /\ DecimalValue(manual'.req.token) < num_sources
             \/ /\ manual'.via = "cli"
                /\ manual'.arg \in Sources )
        => /\ active_source_index' = IF manual'.via = "http"
                                      THEN DecimalValue(manual'.req.token)
                                      ELSE manual'.arg
           /\ last_manual_switch_time' = now ]_vars

\* C25: while a switch is pending, a step either leaves pending_switch_to and
\* pending_switch_time as they are, or it is the finalisation: it sets
\* pending_switch_to to -1 and makes the pending source the active one
C25_PendingNotOverwritten ==
    [][ pending_switch_to >= 0
        => \/ /\ pending_switch_to' = pending_switch_to
              /\ pending_switch_time' = pending_switch_time
           \/ /\ pending_switch_to' = -1
              /\ active_source_index' = pending_switch_to ]_vars

\* the monitor, about to install a failover to the black source, has found a
\* switch to another source pending and has left it
C25_Witness ==
    /\ access = [thread |-> "monitor", fields |-> {"pending_switch_to"}, held |-> TRUE]
    /\ pending_switch_to >= 0
    /\ pending_switch_to # black_source

\* C26: a sweep made outside the manual grace period over an active source
\* other than the black one, of which packets have been read and consumed,
\* finds it healthy exactly when its last packet was consumed at most
\* source_timeout_ms ago
C26_ActiveJudgedByConsumption ==
    [][ ( /\ mon_pc = "sweep" /\ mon_pc' # "sweep"
          /\ mon_active # black_source
          /\ ~(now - last_manual_switch_time < ManualGraceMs)
          /\ packets_read[mon_active] > 0
          /\ last_consumption_time[mon_active] > 0 )
        => ( is_healthy'[mon_active]
               <=> now - last_consumption_time[mon_active] <= source_timeout_ms ) ]_vars

\* the packet at the head of a queue
HeadPacket(buf) == buf.packets[buf.read_index]

\* C27: a call of try_get does not wait; on an empty queue it returns "would
\* block" when eof is not set and "end of stream" when eof is set; otherwise
\* it removes the head packet and returns it
C27_TryGetResult ==
    last_op.op = "try_get"
        => LET b == last_op.before
           IN  /\ last_op.ret # "WAIT"
               /\ (b.count = 0 /\ ~b.eof) => last_op.ret = "EAGAIN"
               /\ (b.count = 0 /\ b.eof) => last_op.ret = "EOF"
               /\ b.count > 0 => /\ last_op.ret = "OK"
                                /\ last_op.pkt = HeadPacket(b)
                                /\ buffer[last_op.src].count = b.count - 1

\* C28: a call of get waits exactly when the queue is empty and eof is not
\* set; it returns "end of stream" exactly when the queue is empty and eof is
\* set; otherwise, eof set or not, it removes the head packet and returns it,
\* so that the packets come out in the order in which they were put
C28_GetResult ==
    last_op.op = "get"
        => LET b == last_op.before
               q == buffer[last_op.src]
           IN  /\ last_op.ret = "WAIT" <=> (b.count = 0 /\ ~b.eof)
               /\ last_op.ret = "EOF" <=> (b.count = 0 /\ b.eof)
               /\ b.count > 0 => /\ last_op.ret = "OK"
                                /\ last_op.pkt = HeadPacket(b)
                                /\ q.count = b.count - 1
                                /\ q.get_log = Append(b.get_log, last_op.pkt.seq)
                                /\ q.get_log = SubSeq(q.put_log, 1, Len(q.get_log))

\* a get on a queue marked eof took the last packet left in it, the third
\* packet to go through the ring
C28_Witness ==
    /\ last_op.op = "get" /\ last_op.ret = "OK"
    /\ last_op.before.eof /\ last_op.before.count = 1
    /\ last_op.before.read_index # 0
    /\ Len(buffer[last_op.src].get_log) >= 3

\* C29: a call of put waits exactly when the queue is full and eof is not
\* set; on a queue marked eof it returns "closed" and leaves count,
\* read_index, write_index and the stored packets as they were
C29_PutResult ==
    last_op.op = "put"
        => LET b == last_op.before
               q == buffer[last_op.src]
           IN  /\ last_op.ret = "WAIT" <=> (b.count = Capacity(b) /\ ~b.eof)
               /\ b.eof => /\ last_op.ret = "CLOSED"
                          /\ q.count = b.count
                          /\ q.read_index = b.read_index
                          /\ q.write_index = b.write_index
                          /\ q.packets = b.packets

\* a put on a queue that is marked eof and not full was refused, after the
\* ring had wrapped around
C29_Witness ==
    /\ last_op.op = "put" /\ last_op.ret = "CLOSED"
    /\ last_op.before.count = 1
    /\ Len(last_op.before.put_log) >= QueueCapacity

\* C30: no step clears the eof mark of a queue
C30_EofNeverCleared ==
    [][ \A i \in Sources : buffer[i].eof => buffer'[i].eof ]_vars

\* close has run to its end; a queue it marked eof, from which packets were
\* taken before, still holds a packet
C30_Witness ==
    /\ close_pc = "done"
    /\ \E i \in Sources :
          /\ buffer[i].eof /\ thread_running[i] = FALSE
          /\ Len(buffer[i].get_log) >= 1 /\ buffer[i].count >= 1
          /\ packets_read[i] = Len(buffer[i].put_log)

----------------------------------------------------------------------------
\* a step of the read path that executes a pending switch
FinaliseStep == rp_pc = "finalise" /\ rp_pc' = "normalise"

\* C31: finalising a pending switch to target p sets, in one critical section
\* of state_mutex (held when the step starts, released when it ends),
\* active_source_index = p, pending_switch_to = -1, wait_for_iframe = FALSE,
\* first_packet = TRUE, last_output_pts and last_output_dts = none and
\* ts_offset[p] = 0, and leaves ts_offset of every other source as it was
C31_FinaliseEffect ==
    [][FinaliseStep =>
          LET p == rp_pending
          IN  /\ state_mutex = "arbiter" /\ state_mutex' = "free"
              /\ active_source_index' = p
              /\ pending_switch_to' = -1
              /\ wait_for_iframe' = FALSE
              /\ first_packet' = TRUE
              /\ last_output_pts' = AV_NOPTS_VALUE
              /\ last_output_dts' = AV_NOPTS_VALUE
              /\ ts_offset'[p] = 0
              /\ \A j \in Sources \ {p} : ts_offset'[j] = ts_offset[j]]_vars

\* a switch has just been executed, after a packet was emitted, while another
\* source has an offset that is not 0
C31_Witness ==
    /\ rp_pc = "normalise"
    /\ access = [thread |-> "arbiter", held |-> TRUE,
                 fields |-> {"active_source_index", "pending_switch_to",
                             "wait_for_iframe"}]
    /\ first_packet /\ last_output_dts = AV_NOPTS_VALUE
    /\ out.emitted # <<>>
    /\ pending_switch_to = -1
    /\ ts_offset[rp_active] = 0
    /\ \E j \in Sources \ {rp_active} : ts_offset[j] # 0

----------------------------------------------------------------------------
\* a step of the normaliser on a packet that is not the first one, with pts
\* and dts known and last_output_dts known
NormaliseStep ==
    /\ rp_pc = "normalise" /\ rp_pc' = "idle"
    /\ ~first_packet
    /\ rp_pkt.pts # AV_NOPTS_VALUE /\ rp_pkt.dts # AV_NOPTS_VALUE
    /\ last_output_dts # AV_NOPTS_VALUE

\* C32: for a packet that is not the first one, with known timestamps,
\* ts_offset[active] becomes required_offset = last_output_dts - dts when
\* |required_offset - ts_offset[active]| > 90000 and stays as it is otherwise;
\* the emitted pts and dts are the packet's plus ts_offset[active], and
\* last_output_pts and last_output_dts become the emitted values
C32_OffsetAndEmit ==
    [][NormaliseStep =>
          LET a == rp_active
              required_offset == last_output_dts - rp_pkt.dts
              far == IF required_offset - ts_offset[a] < 0
                     THEN ts_offset[a] - required_offset > 90000
                     ELSE required_offset - ts_offset[a] > 90000
          IN  /\ ts_offset'[a] = IF far THEN required_offset ELSE ts_offset[a]
              /\ \A j \in Sources \ {a} : ts_offset'[j] = ts_offset[j]
              /\ out'.ret = "OK"
              /\ out'.pkt.pts = rp_pkt.pts + ts_offset'[a]
              /\ out'.pkt.dts = rp_pkt.dts + ts_offset'[a]
              /\ last_output_pts' = out'.pkt.pts
              /\ last_output_dts' = out'.pkt.dts]_vars

\* the second packet moved the offset of its source to 90001, and the third,
\* from the same source, asked for the offset 1, which is exactly 90000 away:
\* the offset stayed and the packet went out with it
C32_Witness ==
    /\ rp_pc = "idle" /\ Len(out.emitted) = 3
    /\ out.ret = "OK"
    /\ out.prev_dts = TsThreshold + 1
    /\ out.pkt.dts = 2 * TsThreshold + 1
    /\ ts_offset[out.pkt.src] = TsThreshold + 1

----------------------------------------------------------------------------
\* C33: when av_read_frame reports no data (AVERROR_EOF or AVERROR(EAGAIN))
\* the reader goes back to reading and leaves last_packet_time, packets_read
\* and its queue, the eof mark included, as they were; on any other error,
\* and when packet_buffer_put finds the queue closed, the reader leaves its
\* loop, and its queue is marked eof when it has
C33_ReaderErrors ==
    [][\A i \in Sources :
          /\ (reader_pc[i] \in NoData /\ reader_pc'[i] # reader_pc[i]) =>
                /\ reader_pc'[i] = "read"
                /\ last_packet_time'[i] = last_packet_time[i]
                /\ packets_read'[i] = packets_read[i]
                /\ buffer'[i] = buffer[i]
          /\ (reader_pc[i] = "EIO" /\ reader_pc'[i] # "EIO") =>
                reader_pc'[i] = "done" /\ buffer'[i].eof
          /\ (/\ buffer[i].eof
              /\ \/ packets_read'[i] # packets_read[i]
                 \/ reader_pc[i] = "put" /\ reader_pc'[i] # "put") =>
                reader_pc'[i] = "done" /\ buffer'[i].eof]_vars

\* one reader has left on an error, with its queue marked eof; another one,
\* which delivered a packet before the clock moved on, is told that there is
\* no data: its queue is not marked and its last_packet_time is the old one
C33_Witness ==
    \E i, j \in Sources :
        /\ i # j
        /\ reader_pc[j] = "done" /\ buffer[j].eof /\ thread_running[j]
        /\ reader_pc[i] \in NoData
        /\ packets_read[i] = 1 /\ last_packet_time[i] < now
        /\ ~buffer[i].eof

\* C34: when av_read_frame of source i returns the end of the stream, the
\* reader marks the queue of source i eof
C34_EndOfStreamMarksQueue ==
    [][\A i \in Sources :
          (reader_pc[i] = "EOF" /\ reader_pc'[i] # "EOF") => buffer'[i].eof]_vars

----------------------------------------------------------------------------
\* a step of the reader of source i
ReaderStep(i) ==
    \/ reader_pc'[i] # reader_pc[i]
    \/ reader_pkt'[i] # reader_pkt[i]
    \/ packets_read'[i] # packets_read[i]

\* C35: a reader writes last_packet_time, packets_read and the queue of its
\* own source only, and neither is_healthy nor ts_offset nor
\* active_source_index nor pending_switch_to; is_healthy is written by the
\* sweep of the monitor alone
C35_ReaderFrame ==
    [][/\ \A i \in Sources :
             ReaderStep(i) =>
                /\ \A j \in Sources \ {i} :
                       /\ last_packet_time'[j] = last_packet_time[j]
                       /\ packets_read'[j] = packets_read[j]
                       /\ buffer'[j] = buffer[j]
                /\ UNCHANGED <<is_healthy, ts_offset, active_source_index,
                               pending_switch_to>>
       /\ (is_healthy' # is_healthy) => (mon_pc = "sweep" /\ mon_pc' # "sweep")]_vars

\* a reader has left on an error, its queue marked eof, while its source still
\* counts as healthy, and the monitor has declared another source, which did
\* deliver, unhealthy
C35_Witness ==
    \E i, j \in Sources :
        /\ reader_pc[i] = "done" /\ buffer[i].eof
        /\ i # black_source /\ is_healthy[i]
        /\ ~is_healthy[j] /\ packets_read[j] > 0

----------------------------------------------------------------------------
\* the payload holds a start code 00 00 01 or 00 00 00 01 with a byte right
\* behind it whose low 5 bits are 5, 7 or 8
HasKeyNal(data) ==
    \/ \E k \in 1 .. Len(data) - 3 :
          /\ data[k] = 0 /\ data[k + 1] = 0 /\ data[k + 2] = 1
          /\ (data[k + 3] % 32) \in {5, 7, 8}
    \/ \E k \in 1 .. Len(data) - 4 :
          /\ data[k] = 0 /\ data[k + 1] = 0 /\ data[k + 2] = 0 /\ data[k + 3] = 1
          /\ (data[k + 4] % 32) \in {5, 7, 8}

\* C36: on every path that decides whether to execute a switch, the forced one
\* included, the packet counts as a keyframe exactly when the container flag
\* is set or its payload holds a start code followed by a NAL of type 5, 7
\* or 8, wherever in the payload and however short the payload
C36_KeyframeEvaluation ==
    rp_pc \in {"scanned", "tested"} =>
        (is_keyframe <=> (rp_pkt.flags = AV_PKT_FLAG_KEY \/ HasKeyNal(rp_data)))

----------------------------------------------------------------------------
\* the positions at which the next thing the read path does is a call of
\* packet_buffer_try_get or packet_buffer_get (it is inside the call when it
\* has to wait), and the one at which the monitor reads the counts of the
\* queues under their mutexes
ArbiterAtQueue == rp_pc \in {"body", "try_active", "forced_get", "fallback_get"}
MonitorAtQueue == mon_pc = "sweep"

\* C37: no thread holds state_mutex while it performs a queue operation or
\* waits in one: not the read path, not the monitor, and the readers never
\* take state_mutex at all
C37_NoQueueUnderStateMutex ==
    /\ ArbiterAtQueue => state_mutex # "arbiter"
    /\ MonitorAtQueue => state_mutex # "monitor"
    /\ state_mutex \in {"free", "arbiter", "monitor", "control", "console"}

\* the read path waits in the blocking get of the forced switch on an empty
\* queue, a reader waits in put on a full one, and the monitor has taken
\* state_mutex
C37_Witness ==
    /\ rp_pc = "forced_get" /\ GetBlocked(buffer[rp_pending])
    /\ \E i \in Sources : reader_pc[i] = "put" /\ PutBlocked(buffer[i])
    /\ state_mutex = "monitor"

----------------------------------------------------------------------------
\* C38: the HTTP thread answers no switch request with 200 OK before open has
\* initialised state_mutex, active_source_index and pending_switch_to, and
\* open's initialisation does not undo a switch that was answered with 200 OK
C38_NoSwitchBeforeInit ==
    [][/\ (manual'.count # manual.count /\ manual'.resp = HTTP_OK) =>
             state_mutex # "uninit"
       /\ (rp_pc = "open_init" /\ rp_pc' # "open_init") =>
             ~(/\ manual.resp = HTTP_OK
               /\ active_source_index = manual.target
               /\ active_source_index' # manual.target)]_vars

----------------------------------------------------------------------------
\* the thread named who is at pc on the queue of source i
CondAt(i, who, pc) == IF who = "reader" THEN reader_pc[i] = pc ELSE rp_pc = pc

\* C39: on a queue no wake-up is lost and the reader and the thread that reads
\* never wait together: a reader stays inside the wait of put only while the
\* queue is full and open, so a get or try_get that took a packet has unblocked
\* it, and the thread that reads stays inside the wait of get only while the
\* queue is empty and open, so a put that stored a packet or a setting of eof
\* has unblocked it
C39_NoLostWakeup ==
    \A i \in OpQueues :
        /\ CondAt(i, "reader", "cv_wait") => PutBlocked(buffer[i])
        /\ CondAt(i, "arbiter", "cv_wait") => GetBlocked(buffer[i])
        /\ Waiters(i) # {"reader", "arbiter"}
        /\ (last_op.op \in {"get", "try_get"} /\ last_op.ret = "OK") =>
               ~CondAt(i, "reader", "cv_wait")
        /\ ((last_op.op = "put" /\ last_op.ret = "OK") \/ last_op.op = "eof") =>
               ~CondAt(i, "arbiter", "cv_wait")

\* a get took a packet from the full queue the reader waited on, and the reader
\* is unblocked with its packet still in hand
C39_Witness ==
    /\ CondAt(0, "reader", "cv_ready")
    /\ last_op.op = "get" /\ last_op.ret = "OK"
    /\ last_op.before.count = Capacity(last_op.before)
    /\ reader_pkt[0] # NoPacket

----------------------------------------------------------------------------
\* the step of lines 395-402 in which the monitor installs a pending switch
MonitorInstalls ==
    /\ mon_pc = "install" /\ mon_pc' # "install"
    /\ pending_switch_to' # pending_switch_to

\* C40: whenever the monitor installs a pending switch, the source it judged
\* unhealthy (its snapshot of active_source_index) is the active source at that
\* moment: a manual switch between the snapshot and the installation leads to
\* no failover away from the source the operator selected
C40_InstallAgainstActive ==
    [][MonitorInstalls => mon_active = active_source_index]_vars

====
